---- MODULE Spec2Model ----
(***************************************************************************)
(* A model of the e-mail analysis core of Automatisation_Analyse_Email_IA: *)
(*   - preprocessing/text_preprocessing.py  clean_text                     *)
(*   - features/feature_extraction.py       extract_all_features           *)
(*   - agent/email_agent.py                 EmailSecurityAgent (Variant A) *)
(*   - utils/email_analyzer.py              EmailAnalyzer (Variant B)      *)
(*                                                                         *)
(* Texts are sequences of one-character strings.  Probabilities are exact  *)
(* rationals, written as integers in units of 1/Scale; Scale is a multiple *)
(* of 1000, of the weights' denominator 10 and of the ensemble size 3, so  *)
(* that the weighted sum and the mean of grid probabilities are exact.     *)
(***************************************************************************)
EXTENDS Integers, Sequences, FiniteSets, TLC

VARIABLES
    ctPc, ctIn, ctOut, ctTwice,     \* clean_text applied to a text, then to its own output
    selected_features,              \* EmailSecurityAgent.selected_features
    history,                        \* EmailSecurityAgent.history
    historyFile,                    \* the file at EmailSecurityAgent.history_file
    clock,                          \* what datetime.now() returns next
    request,                        \* the arguments of the call of analyze_email
    modelOut,                       \* what each model did in that call
    outcome,                        \* what the call returned or raised
    thPc, thInput,                  \* a prediction and the findings of a message ...
    thPredicted, thRisks, thClass,  \* ... and their threat classification
    analyzerModels,                 \* the keys of EmailAnalyzer.models
    analyzerScaler,                 \* whether EmailAnalyzer.scaler is loaded
    analyzerSelected,               \* EmailAnalyzer.selected_features
    analyzerRequest,                \* the arguments of the call of analyze
    analyzerModelOut,               \* what the scaler and each model did in that call
    analyzerResult,                 \* what the call returned
    analyzerLog,                    \* the calls of analyze so far, each with its result
    calls,                          \* the calls of analyze_email made so far
    fnPc, fnIn, fnOut,              \* a function of the program applied to an input
    sharedFile,                     \* a history file that two callers share
    sharedAgents,                   \* which agent each caller calls
    sharedHistory,                  \* the history of each of these agents
    sharedPc,                       \* where each caller is in its call
    sharedResult                    \* the result record of each caller's call

cleanVars == <<ctPc, ctIn, ctOut, ctTwice>>
agentVars == <<selected_features, history, historyFile, clock, request, modelOut, outcome,
               calls>>
threatVars == <<thPc, thInput, thPredicted, thRisks, thClass>>
analyzerVars == <<analyzerModels, analyzerScaler, analyzerSelected, analyzerRequest,
                  analyzerModelOut, analyzerResult, analyzerLog>>
fnVars == <<fnPc, fnIn, fnOut>>
sharedVars == <<sharedFile, sharedAgents, sharedHistory, sharedPc, sharedResult>>
vars == <<cleanVars, agentVars, threatVars, analyzerVars, fnVars, sharedVars>>

\* the variables of a part of the model that a specification leaves aside
CleanIdle == ctPc = "idle" /\ ctIn = <<>> /\ ctOut = <<>> /\ ctTwice = <<>>

AgentIdle ==
    /\ selected_features = {}
    /\ history = <<>>
    /\ historyFile = <<>>
    /\ clock = 0
    /\ request = <<>>
    /\ modelOut = <<>>
    /\ outcome = <<>>
    /\ calls = 0

ThreatIdle ==
    /\ thPc = "idle"
    /\ thInput = <<>>
    /\ thPredicted = <<>>
    /\ thRisks = <<>>
    /\ thClass = <<>>

AnalyzerIdle ==
    /\ analyzerModels = {}
    /\ analyzerScaler = FALSE
    /\ analyzerSelected = <<>>
    /\ analyzerRequest = <<>>
    /\ analyzerModelOut = <<>>
    /\ analyzerResult = <<>>
    /\ analyzerLog = <<>>

FnIdle == fnPc = "idle" /\ fnIn = <<>> /\ fnOut = <<>>

SharedIdle ==
    /\ sharedFile = <<>>
    /\ sharedAgents = <<>>
    /\ sharedHistory = <<>>
    /\ sharedPc = <<>>
    /\ sharedResult = <<>>

(***************************************************************************)
(* Bounds of the model.                                                    *)
(***************************************************************************)
\* the longest text handed to clean_text, counted in pieces of TextPieces
MaxPieces == 3

\* the most URLs of one scheme in the body of a message
MaxUrls == 6

\* the model probabilities of a call of analyze_email, and of an ensemble
\* call of analyze, are the k/AgentGridN
AgentGridN == 4

\* the probability of a call that asks one model only is one of the k/FineGridN
FineGridN == 20

\* the most calls one agent or one analyzer gets in a row
MaxCalls == 2

\* the most parts of a multipart message below its root
MaxParts == 3

\* the callers of analyze_email that run at the same time
MaxCallers == 2

(***************************************************************************)
(* Characters and the character classes the regular expressions use.       *)
(***************************************************************************)
UpperLetters ==
    <<"A","B","C","D","E","F","G","H","I","J","K","L","M",
      "N","O","P","Q","R","S","T","U","V","W","X","Y","Z">>

LowerLetters ==
    <<"a","b","c","d","e","f","g","h","i","j","k","l","m",
      "n","o","p","q","r","s","t","u","v","w","x","y","z">>

Digits == {"0","1","2","3","4","5","6","7","8","9"}

Range(s) == {s[i] : i \in DOMAIN s}

\* \s of the re module, and the separators of str.split() and str.strip()
IsSpace(c) == c \in {" ", "\t", "\n", "\r"}

\* the class [a-z0-9]
IsLowerAlnum(c) == c \in Range(LowerLetters) \cup Digits

\* str.lower() on one character
LowerChar(c) ==
    IF c \in Range(UpperLetters)
    THEN LowerLetters[CHOOSE i \in DOMAIN UpperLetters : UpperLetters[i] = c]
    ELSE c

\* str.lower()
Lower(s) == [i \in DOMAIN s |-> LowerChar(s[i])]

\* s[i:].startswith(w), with i counted from 1
StartsWithAt(s, i, w) ==
    /\ i + Len(w) - 1 <= Len(s)
    /\ SubSeq(s, i, i + Len(w) - 1) = w

\* the least element of a non-empty set of integers
Min(S) == CHOOSE j \in S : \A k \in S : j <= k

\* the index of the last character of the run of characters of class
\* "not whitespace" that starts at i (i itself is not whitespace)
NonSpaceRunEnd(s, i) ==
    Min({e \in i..Len(s) : e = Len(s) \/ IsSpace(s[e + 1])})

\* the index of the last character of the run of whitespace that starts at i
SpaceRunEnd(s, i) ==
    Min({e \in i..Len(s) : e = Len(s) \/ ~IsSpace(s[e + 1])})

(***************************************************************************)
(* html.unescape, on texts without '#': a reference is '&', a name of 1 to *)
(* 32 characters none of which is whitespace, '<', '&', '#' or ';', and an *)
(* optional ';'.  A name of the table is replaced by its character; else   *)
(* the longest proper prefix of at least two characters that is a name of  *)
(* the table is replaced; else the text is kept.  The table is that of     *)
(* html.entities.html5 for the names lt, gt and amp.                       *)
(***************************************************************************)
html5 ==
    { <<<<"l","t">>, "<">>,      <<<<"l","t",";">>, "<">>,
      <<<<"g","t">>, ">">>,      <<<<"g","t",";">>, ">">>,
      <<<<"a","m","p">>, "&">>,  <<<<"a","m","p",";">>, "&">> }

IsCharrefNameChar(c) == ~(c \in {"\t", "\n", "\f", " ", "<", "&", "#", ";"})

MaxCharrefName == 32

\* the index of the last character of the name that starts at i
CharrefNameEnd(s, i) ==
    Min({e \in i..Len(s) : \/ e = Len(s)
                           \/ ~IsCharrefNameChar(s[e + 1])
                           \/ e - i + 1 = MaxCharrefName})

InHtml5(name) == \E e \in html5 : e[1] = name

Html5Char(name) == (CHOOSE e \in html5 : e[1] = name)[2]

\* _replace_charref on the text matched after '&'
ReplaceCharref(s) ==
    IF InHtml5(s) THEN <<Html5Char(s)>>
    ELSE LET xs == {x \in 2..(Len(s) - 1) : InHtml5(SubSeq(s, 1, x))}
         IN IF xs # {}
            THEN LET x == CHOOSE y \in xs : \A z \in xs : z <= y
                 IN <<Html5Char(SubSeq(s, 1, x))>> \o SubSeq(s, x + 1, Len(s))
            ELSE <<"&">> \o s

\* a reference starts at i
CharrefAt(s, i) == s[i] = "&" /\ i + 1 <= Len(s) /\ IsCharrefNameChar(s[i + 1])

\* the text from i on, its references replaced from left to right
RECURSIVE HtmlUnescapeFrom(_, _)
HtmlUnescapeFrom(s, i) ==
    LET starts == {j \in i..Len(s) : CharrefAt(s, j)}
    IN IF starts = {} THEN SubSeq(s, i, Len(s))
       ELSE LET b == Min(starts)
                e == CharrefNameEnd(s, b + 1)
                j == IF e + 1 <= Len(s) /\ s[e + 1] = ";" THEN e + 1 ELSE e
            IN SubSeq(s, i, b - 1) \o ReplaceCharref(SubSeq(s, b + 1, j))
                                   \o HtmlUnescapeFrom(s, j + 1)

HtmlUnescape(s) == HtmlUnescapeFrom(s, 1)

(***************************************************************************)
(* The substitutions of clean_text.                                        *)
(***************************************************************************)
\* re.sub(r'<[^>]+>', ' ', text): a tag is '<', at least one character that
\* is not '>', and the first '>' that follows
TagAt(s, i) ==
    /\ s[i] = "<"
    /\ i + 1 <= Len(s)
    /\ s[i + 1] # ">"
    /\ \E j \in (i + 2)..Len(s) : s[j] = ">"

TagEnd(s, i) == Min({k \in (i + 2)..Len(s) : s[k] = ">"})

\* the text from i on, its matches replaced from left to right
RECURSIVE StripTagsFrom(_, _)
StripTagsFrom(s, i) ==
    LET starts == {j \in i..Len(s) : TagAt(s, j)}
    IN IF starts = {} THEN SubSeq(s, i, Len(s))
       ELSE LET b == Min(starts)
            IN SubSeq(s, i, b - 1) \o <<" ">> \o StripTagsFrom(s, TagEnd(s, b) + 1)

StripTags(s) == StripTagsFrom(s, 1)

\* re.sub(r'http\S+|www\S+', ' ', text): the length of the literal that
\* starts a match at i, 0 if no match starts there
UrlTokenAt(s, i) ==
    IF /\ StartsWithAt(s, i, <<"h","t","t","p">>)
       /\ i + 4 <= Len(s)
       /\ ~IsSpace(s[i + 4])
    THEN 4
    ELSE IF /\ StartsWithAt(s, i, <<"w","w","w">>)
            /\ i + 3 <= Len(s)
            /\ ~IsSpace(s[i + 3])
         THEN 3
         ELSE 0

RECURSIVE StripUrlsFrom(_, _)
StripUrlsFrom(s, i) ==
    LET starts == {j \in i..Len(s) : UrlTokenAt(s, j) > 0}
    IN IF starts = {} THEN SubSeq(s, i, Len(s))
       ELSE LET b == Min(starts)
                e == NonSpaceRunEnd(s, b + UrlTokenAt(s, b))
            IN SubSeq(s, i, b - 1) \o <<" ">> \o StripUrlsFrom(s, e + 1)

StripUrls(s) == StripUrlsFrom(s, 1)

\* re.sub(r'[^a-z0-9\s]', ' ', text)
NonAlnumToSpace(s) ==
    [i \in DOMAIN s |-> IF IsLowerAlnum(s[i]) \/ IsSpace(s[i]) THEN s[i] ELSE " "]

\* re.sub(r'\s+', ' ', text)
RECURSIVE CollapseSpacesFrom(_, _)
CollapseSpacesFrom(s, i) ==
    IF i > Len(s) THEN <<>>
    ELSE IF IsSpace(s[i])
         THEN <<" ">> \o CollapseSpacesFrom(s, SpaceRunEnd(s, i) + 1)
         ELSE LET e == NonSpaceRunEnd(s, i)
              IN SubSeq(s, i, e) \o CollapseSpacesFrom(s, e + 1)

CollapseSpaces(s) == CollapseSpacesFrom(s, 1)

\* str.strip()
RECURSIVE Strip(_)
Strip(s) ==
    IF s = <<>> THEN s
    ELSE IF IsSpace(s[1]) THEN Strip(Tail(s))
    ELSE IF IsSpace(s[Len(s)]) THEN Strip(SubSeq(s, 1, Len(s) - 1))
    ELSE s

\* clean_text with the last step, strip(), left out
clean_text_unstripped(text) ==
    IF text \in {<<>>, <<"None">>} THEN <<>>
    ELSE CollapseSpaces(NonAlnumToSpace(Lower(StripUrls(StripTags(HtmlUnescape(text))))))

\* clean_text, its steps in the order of the code; `not text` holds for None,
\* written <<"None">>, and for the empty string
clean_text(text) ==
    IF text \in {<<>>, <<"None">>} THEN <<>>
    ELSE Strip(CollapseSpaces(NonAlnumToSpace(Lower(StripUrls(StripTags(HtmlUnescape(text)))))))

(***************************************************************************)
(* The texts clean_text is applied to: every concatenation of at most      *)
(* MaxPieces pieces, and None.  The pieces hold upper- and lower-case      *)
(* letters, a digit, a space, a newline, '<', '>', '&', ':', '/', '.' and  *)
(* a letter outside ASCII.                                                 *)
(***************************************************************************)
TextPieces ==
    << <<"h","t","t","p">>, <<"H","T","T","P">>, <<"s">>, <<"w","w","w">>,
       <<"a">>, <<"1">>, <<" ">>, <<"<">>, <<">">>, <<"&">>, <<"l","t">>,
       <<":","/","/">>, <<".">>, <<"\n">>, <<"E'">> >>

RECURSIVE Concats(_)
Concats(n) ==
    IF n = 0 THEN {<<>>}
    ELSE LET prev == Concats(n - 1)
         IN prev \cup {x \o TextPieces[i] : x \in prev, i \in DOMAIN TextPieces}

CleanInputs == Concats(MaxPieces) \cup {<<"None">>}

(***************************************************************************)
(* clean_text applied to a text, and then to its own result.               *)
(***************************************************************************)
InitClean ==
    /\ ctPc = "input"
    /\ ctIn \in CleanInputs
    /\ ctOut = <<>>
    /\ ctTwice = <<>>
    /\ AgentIdle
    /\ ThreatIdle
    /\ AnalyzerIdle
    /\ FnIdle
    /\ SharedIdle

CleanText ==
    /\ ctPc = "input"
    /\ ctOut' = clean_text(ctIn)
    /\ ctPc' = "cleaned"
    /\ UNCHANGED <<ctIn, ctTwice, agentVars, threatVars, analyzerVars, fnVars, sharedVars>>

CleanTextAgain ==
    /\ ctPc = "cleaned"
    /\ ctTwice' = clean_text(ctOut)
    /\ ctPc' = "recleaned"
    /\ UNCHANGED <<ctIn, ctOut, agentVars, threatVars, analyzerVars, fnVars, sharedVars>>

NextClean == CleanText \/ CleanTextAgain

SpecClean == InitClean /\ [][NextClean]_vars

(* C8: clean_text is idempotent: cleaning the result of clean_text again   *)
(* gives the same text.                                                    *)
C8_Idempotent == ctPc = "recleaned" => ctTwice = ctOut

(***************************************************************************)
(* features/feature_extraction.py.  A value that Python leaves as None is  *)
(* None below; a file name that is None is NoFilename.                     *)
(***************************************************************************)
None == "None"

NoFilename == <<"None">>

SUSPICIOUS_WORDS ==
    { <<"u","r","g","e","n","t">>, <<"v","e","r","i","f","y">>,
      <<"a","c","c","o","u","n","t">>, <<"p","a","s","s","w","o","r","d">>,
      <<"c","o","n","f","i","r","m">>, <<"s","e","c","u","r","i","t","y">>,
      <<"u","p","d","a","t","e">>, <<"l","o","g","i","n">> }

DANGEROUS_EXTENSIONS ==
    { <<".","e","x","e">>, <<".","z","i","p">>, <<".","j","s">>,
      <<".","s","c","r">>, <<".","b","a","t">> }

\* str.split(): the maximal runs of characters that are not whitespace
RECURSIVE SplitFrom(_, _)
SplitFrom(s, i) ==
    IF i > Len(s) THEN <<>>
    ELSE IF IsSpace(s[i]) THEN SplitFrom(s, SpaceRunEnd(s, i) + 1)
    ELSE LET e == NonSpaceRunEnd(s, i)
         IN <<SubSeq(s, i, e)>> \o SplitFrom(s, e + 1)

Split(s) == SplitFrom(s, 1)

\* str.endswith
EndsWith(s, suffix) ==
    /\ Len(suffix) <= Len(s)
    /\ SubSeq(s, Len(s) - Len(suffix) + 1, Len(s)) = suffix

\* str.startswith
StartsWith(s, prefix) == StartsWithAt(s, 1, prefix)

extract_text_features(text) ==
    LET words == Split(text)
    IN [ text_length |-> Len(text),
         word_count |-> Len(words),
         suspicious_word_count |->
             Cardinality({i \in DOMAIN words : words[i] \in SUSPICIOUS_WORDS}) ]

\* the length of the prefix http:// or https:// that starts at i, 0 if none
UrlPrefixLen(s, i) ==
    IF StartsWithAt(s, i, <<"h","t","t","p","s",":","/","/">>) THEN 8
    ELSE IF StartsWithAt(s, i, <<"h","t","t","p",":","/","/">>) THEN 7
    ELSE 0

\* a match of r'http[s]?://\S+' starts at i
UrlAt(s, i) ==
    LET n == UrlPrefixLen(s, i)
    IN n > 0 /\ i + n <= Len(s) /\ ~IsSpace(s[i + n])

\* re.findall(r'http[s]?://\S+', text)
RECURSIVE FindUrlsFrom(_, _)
FindUrlsFrom(s, i) ==
    LET starts == {j \in i..Len(s) : UrlAt(s, j)}
    IN IF starts = {} THEN <<>>
       ELSE LET b == Min(starts)
                e == NonSpaceRunEnd(s, b + UrlPrefixLen(s, b))
            IN <<SubSeq(s, b, e)>> \o FindUrlsFrom(s, e + 1)

FindUrls(s) == FindUrlsFrom(s, 1)

\* urlparse(url).netloc of an http(s) URL without brackets: what follows
\* "://" up to the first '/', '?' or '#'
Netloc(url) ==
    LET start == UrlPrefixLen(url, 1) + 1
        stops == {j \in start..Len(url) : url[j] \in {"/", "?", "#"}}
        stop == IF stops = {} THEN Len(url) + 1 ELSE Min(stops)
    IN SubSeq(url, start, stop - 1)

extract_url_features(text) ==
    LET urls == FindUrls(text)
    IN [ url_count |-> Len(urls),
         https_url_count |->
             Cardinality({i \in DOMAIN urls :
                             StartsWith(urls[i], <<"h","t","t","p","s">>)}),
         unique_domains |-> Cardinality({Netloc(urls[i]) : i \in DOMAIN urls}) ]

\* int(b)
BoolInt(b) == IF b THEN 1 ELSE 0

extract_header_features(email_data) ==
    [ spf_present |-> BoolInt(email_data["Received-SPF"] # None),
      dkim_present |-> BoolInt(email_data["DKIM-Signature"] # None),
      dmarc_present |-> BoolInt(email_data["Authentication-Results"] # None) ]

\* the test on the file name with the case of its letters ignored
IsDangerous_ignoring_case(att) ==
    /\ att.filename # NoFilename
    /\ att.filename # <<>>
    /\ \E ext \in DANGEROUS_EXTENSIONS : EndsWith(Lower(att.filename), ext)

\* att["filename"] and any(att["filename"].endswith(ext) for ext in ...)
IsDangerous(att) ==
    /\ att.filename # NoFilename
    /\ att.filename # <<>>
    /\ \E ext \in DANGEROUS_EXTENSIONS : EndsWith(att.filename, ext)

\* the attachment features with only the first attachment looked at
extract_attachment_features_first_only(attachments) ==
    [ attachment_count |-> Len(attachments),
      dangerous_attachment |->
          BoolInt(attachments # <<>> /\ IsDangerous(attachments[1])) ]

extract_attachment_features(attachments) ==
    [ attachment_count |-> Len(attachments),
      dangerous_attachment |->
          BoolInt(\E i \in DOMAIN attachments : IsDangerous(attachments[i])) ]

\* features.update(...) four times: the union of the four dictionaries
extract_all_features(email_data, clean) ==
    extract_attachment_features(email_data["Attachments"])
        @@ extract_header_features(email_data)
        @@ extract_url_features(clean)
        @@ extract_text_features(clean)

FeatureSchema ==
    { "text_length", "word_count", "suspicious_word_count", "url_count",
      "https_url_count", "unique_domains", "spf_present", "dkim_present",
      "dmarc_present", "attachment_count", "dangerous_attachment" }

(***************************************************************************)
(* extraction/email_parser.py.  A message file is a record: its headers    *)
(* (None when absent), whether it is multipart, its payload when it is     *)
(* not, and its parts in the order msg.walk() visits them.                 *)
(***************************************************************************)
ParsedHeaders ==
    { "From", "To", "Subject", "Date", "Message-ID", "Reply-To",
      "Authentication-Results", "Received-SPF", "DKIM-Signature",
      "ARC-Seal", "ARC-Message-Signature", "ARC-Authentication-Results" }

\* the loop over msg.walk(): the text of the parts of one content type that
\* are not attachments, concatenated
RECURSIVE BodyOfParts(_, _)
BodyOfParts(parts, content_type) ==
    IF parts = <<>> THEN <<>>
    ELSE LET part == Head(parts)
         IN (IF part.content_type = content_type /\ part.disposition # "attachment"
             THEN part.content ELSE <<>>)
            \o BodyOfParts(Tail(parts), content_type)

\* the loop over msg.walk(): the parts that reach the third branch
RECURSIVE AttachmentsOfParts(_)
AttachmentsOfParts(parts) ==
    IF parts = <<>> THEN <<>>
    ELSE LET part == Head(parts)
             isBody == /\ part.content_type \in {"text/plain", "text/html"}
                       /\ part.disposition # "attachment"
         IN (IF ~isBody /\ part.disposition = "attachment"
             THEN << [ filename |-> part.filename,
                       content_type |-> part.content_type,
                       size |-> part.size ] >>
             ELSE <<>>)
            \o AttachmentsOfParts(Tail(parts))

\* part.is_multipart(): the payload of the part is a list of messages
is_multipart(part) ==
    part.content_type \in {"multipart/mixed", "multipart/alternative", "message/rfc822"}

\* len(part.get_payload(decode=True)) raises TypeError: the decoded payload
\* of a part that is itself multipart is None
parse_email_raises(msg) ==
    /\ msg.multipart
    /\ \E i \in DOMAIN msg.parts :
          /\ msg.parts[i].disposition = "attachment"
          /\ is_multipart(msg.parts[i])

\* the record parse_email returns when it does not raise
parse_email(msg) ==
    [h \in ParsedHeaders |-> msg.headers[h]]
        @@ ( "Body_Text" :> (IF msg.multipart
                             THEN BodyOfParts(msg.parts, "text/plain")
                             ELSE msg.payload)
          @@ "Body_HTML" :> (IF msg.multipart
                             THEN BodyOfParts(msg.parts, "text/html")
                             ELSE <<>>)
          @@ "Attachments" :> (IF msg.multipart
                               THEN AttachmentsOfParts(msg.parts)
                               ELSE <<>>) )

(***************************************************************************)
(* Probabilities.  A model call returns a probability or raises; a model   *)
(* that is not called in an analysis is "not_invoked".                     *)
(***************************************************************************)
Scale == 30 * 1000

\* the probability written in thousandths
Prob(thousandths) == thousandths * (Scale \div 1000)

\* the probabilities k/n, rounded down to thousandths
ProbGrid(n) == {Prob((k * 1000) \div n) : k \in 0..n}

Models == {"lr", "rf", "dl"}

Returns(p) == [status |-> "returned", proba |-> p]

Raises == [status |-> "raised", proba |-> 0]

NotInvoked == [status |-> "not_invoked", proba |-> 0]

\* what each model does when it is called: a probability of the grid, or an
\* exception
ModelReplies(n) == [Models -> {Returns(p) : p \in ProbGrid(n)} \cup {Raises}]

(***************************************************************************)
(* agent/email_agent.py: the prediction engine of EmailSecurityAgent.      *)
(* A call that raises is the record Raised(error).                         *)
(***************************************************************************)
Raised(error) == [raised |-> TRUE, error |-> error]

\* _single_model_predict with the prediction 1 from probability 0.5 on
_single_model_predict_from_half(replies, model_type) ==
    IF model_type \notin Models THEN Raised("KeyError")
    ELSE IF replies[model_type].status # "returned" THEN Raised("ModelError")
    ELSE LET proba == replies[model_type].proba
         IN [ raised |-> FALSE,
              prediction |-> BoolInt(proba >= Prob(500)),
              proba |-> proba ]

\* self.models[model_type] of a constructed agent: _load_models loaded the
\* three models or raised
_single_model_predict(replies, model_type) ==
    IF model_type \notin Models THEN Raised("KeyError")
    ELSE IF replies[model_type].status # "returned" THEN Raised("ModelError")
    ELSE LET proba == replies[model_type].proba
         IN [ raised |-> FALSE,
              prediction |-> BoolInt(proba > Prob(500)),
              proba |-> proba ]

\* weights, in tenths, in the order the dictionary is iterated
EnsembleOrder == <<"lr", "rf", "dl">>

\* the weights of lr and dl exchanged
weights_swapped == [lr |-> 3, rf |-> 5, dl |-> 2]

weights == [lr |-> 2, rf |-> 5, dl |-> 3]

\* proba * weight
Weighted(proba, model_type) == (proba * weights[model_type]) \div 10

RECURSIVE SumSeq(_)
SumSeq(s) == IF s = <<>> THEN 0 ELSE Head(s) + SumSeq(Tail(s))

_ensemble_predict(replies) ==
    LET single == [i \in DOMAIN EnsembleOrder |->
                      _single_model_predict(replies, EnsembleOrder[i])]
        failed == {i \in DOMAIN single : single[i].raised}
    IN IF failed # {}
       THEN single[Min(failed)]
       ELSE LET probas == [i \in DOMAIN single |->
                              Weighted(single[i].proba, EnsembleOrder[i])]
                final_proba == SumSeq(probas)
            IN [ raised |-> FALSE,
                 prediction |-> BoolInt(final_proba > Prob(500)),
                 proba |-> final_proba ]

\* the models a call of analyze_email reaches, in order: the one named, or
\* those of the ensemble up to the first that raises
Invoked(replies, model_type) ==
    IF model_type = "ensemble"
    THEN {EnsembleOrder[i] : i \in {j \in DOMAIN EnsembleOrder :
             \A k \in 1..(j - 1) : replies[EnsembleOrder[k]].status = "returned"}}
    ELSE {model_type} \cap Models

(***************************************************************************)
(* agent/email_agent.py: the risk detector and the classifier.             *)
(***************************************************************************)
Finding(type, severity, description, recommendation) ==
    [ type |-> type, severity |-> severity,
      description |-> description, recommendation |-> recommendation ]

\* one rule: the finding when its trigger holds
When(trigger, finding) == IF trigger THEN <<finding>> ELSE <<>>

\* the ratio test with 0.5 itself counted as insecure
HttpsRatioAtMostHalf(https_url_count, url_count) ==
    2 * https_url_count <= (IF url_count > 1 THEN url_count ELSE 1)

\* https_url_count / max(url_count, 1) < 0.5
HttpsRatioBelowHalf(https_url_count, url_count) ==
    2 * https_url_count < (IF url_count > 1 THEN url_count ELSE 1)

_detect_risks(email_data, features, clean) ==
    When(features.spf_present = 0,
         Finding("SPF_MISSING", "HIGH", <<"Aucune verification SPF detectee">>,
                 "Email peut etre usurpe"))
    \o When(features.dkim_present = 0,
         Finding("DKIM_MISSING", "HIGH", <<"Aucune signature DKIM detectee">>,
                 "Authenticite du domaine non verifiee"))
    \o When(features.dmarc_present = 0,
         Finding("DMARC_MISSING", "MEDIUM", <<"Aucune politique DMARC detectee">>,
                 "Politique d'authentification absente"))
    \o When(features.suspicious_word_count > 0,
         Finding("SUSPICIOUS_KEYWORDS", "MEDIUM",
                 <<features.suspicious_word_count, "mots suspects detectes">>,
                 "Contenu potentiellement frauduleux"))
    \o When(features.url_count > 5,
         Finding("MULTIPLE_URLS", "MEDIUM", <<features.url_count, "URLs detectees">>,
                 "Nombre eleve de liens suspects"))
    \o When(/\ features.url_count > 0
            /\ HttpsRatioBelowHalf(features.https_url_count, features.url_count),
         Finding("INSECURE_URLS", "HIGH", <<"URLs non securisees (HTTP)">>,
                 "Liens potentiellement malveillants"))
    \o When(features.dangerous_attachment # 0,
         Finding("DANGEROUS_ATTACHMENT", "CRITICAL",
                 <<"Piece jointe potentiellement dangereuse">>,
                 "NE PAS ouvrir la piece jointe"))
    \o When(/\ email_data["Reply-To"] # None
            /\ email_data["Reply-To"] # ""
            /\ email_data["Reply-To"] # email_data["From"],
         Finding("FROM_REPLY_MISMATCH", "HIGH", <<"Incoherence entre From et Reply-To">>,
                 "Possible tentative d'usurpation"))

HasType(risks, types) == \E i \in DOMAIN risks : risks[i].type \in types

\* the threat type with the URL findings looked at first
threat_type_urls_first(risks) ==
    LET has_attachment == HasType(risks, {"DANGEROUS_ATTACHMENT"})
        has_urls == HasType(risks, {"MULTIPLE_URLS", "INSECURE_URLS"})
    IN IF has_urls THEN "PHISHING"
       ELSE IF has_attachment THEN "MALWARE"
       ELSE "SPAM"

\* lines 309 to 317: the threat type of the findings
threat_type(risks) ==
    LET has_attachment == HasType(risks, {"DANGEROUS_ATTACHMENT"})
        has_urls == HasType(risks, {"MULTIPLE_URLS", "INSECURE_URLS"})
    IN IF has_attachment THEN "MALWARE"
       ELSE IF has_urls THEN "PHISHING"
       ELSE "SPAM"

\* the tiers with the bounds 0.9 and 0.7 in the upper tier
severity_tier_inclusive(confidence) ==
    IF confidence >= Prob(900)
    THEN [level |-> "CRITICAL", color |-> "red", action |-> "BLOCK"]
    ELSE IF confidence >= Prob(700)
    THEN [level |-> "HIGH", color |-> "orange", action |-> "QUARANTINE"]
    ELSE [level |-> "MEDIUM", color |-> "yellow", action |-> "FLAG"]

\* lines 319 to 330: level, colour and action of the confidence
severity_tier(confidence) ==
    IF confidence > Prob(900)
    THEN [level |-> "CRITICAL", color |-> "red", action |-> "BLOCK"]
    ELSE IF confidence > Prob(700)
    THEN [level |-> "HIGH", color |-> "orange", action |-> "QUARANTINE"]
    ELSE [level |-> "MEDIUM", color |-> "yellow", action |-> "FLAG"]

\* _classify_threat with the first branch taken on the confidence alone
_classify_threat_by_confidence(prediction, confidence, risks) ==
    IF confidence > Prob(800)
    THEN [ label |-> "LEGITIMATE", level |-> "SAFE", color |-> "green",
           recommendation |-> <<"Email sur">>, action |-> "ALLOW" ]
    ELSE IF prediction = 0
    THEN [ label |-> "SUSPICIOUS", level |-> "LOW", color |-> "yellow",
           recommendation |-> <<"Verification manuelle recommandee">>,
           action |-> "FLAG" ]
    ELSE LET tier == severity_tier(confidence)
         IN [ label |-> threat_type(risks), level |-> tier.level,
              color |-> tier.color,
              recommendation |-> <<"Menace detectee :", threat_type(risks)>>,
              action |-> tier.action ]

_classify_threat(prediction, confidence, risks) ==
    IF prediction = 0
    THEN IF confidence > Prob(800)
         THEN [ label |-> "LEGITIMATE", level |-> "SAFE", color |-> "green",
                recommendation |-> <<"Email sur">>, action |-> "ALLOW" ]
         ELSE [ label |-> "SUSPICIOUS", level |-> "LOW", color |-> "yellow",
                recommendation |-> <<"Verification manuelle recommandee">>,
                action |-> "FLAG" ]
    ELSE LET tier == severity_tier(confidence)
         IN [ label |-> threat_type(risks), level |-> tier.level,
              color |-> tier.color,
              recommendation |-> <<"Menace detectee :", threat_type(risks)>>,
              action |-> tier.action ]

(***************************************************************************)
(* The message files analyze_email is called on.  A body is some words     *)
(* followed by distinct http:// URLs and distinct https:// URLs.           *)
(***************************************************************************)
DigitChars == <<"0","1","2","3","4","5","6","7","8","9">>

\* n distinct URLs of one scheme, each after a space: http://h1.io, ...
RECURSIVE UrlsText(_, _)
UrlsText(prefix, n) ==
    IF n = 0 THEN <<>>
    ELSE UrlsText(prefix, n - 1)
         \o <<" ">> \o prefix \o <<DigitChars[n + 1]>> \o <<".","i","o">>

Body(words, nHttp, nHttps) ==
    words \o UrlsText(<<"h","t","t","p",":","/","/","h">>, nHttp)
          \o UrlsText(<<"h","t","t","p","s",":","/","/","s">>, nHttps)

PlainWords == <<"H","e","l","l","o"," ","t","e","a","m">>

SuspiciousWords ==
    <<"U","R","G","E","N","T",":"," ","v","e","r","i","f","y"," ","y","o","u","r"," ",
      "a","c","c","o","u","n","t"," ","p","a","s","s","w","o","r","d">>

AgentBodies ==
    << <<>>,
       PlainWords,
       SuspiciousWords,
       Body(PlainWords, MaxUrls, 0),
       Body(PlainWords, 0, 1),
       Body(SuspiciousWords, MaxUrls, 1) >>

Headers(from, replyTo, auth) ==
    [h \in ParsedHeaders |->
        CASE h = "From" -> from
          [] h = "To" -> "bob@corp.example"
          [] h = "Subject" -> "Invoice"
          [] h = "Reply-To" -> replyTo
          [] h \in {"Received-SPF", "DKIM-Signature", "Authentication-Results"} -> auth
          [] OTHER -> None]

Part(content_type, disposition, content, filename) ==
    [ content_type |-> content_type, disposition |-> disposition,
      content |-> content, filename |-> filename, size |-> Len(content) ]

Envelopes == {"authenticated", "spoofed", "with_attachment"}

Message(envelope, body) ==
    CASE envelope = "authenticated" ->
            [ headers |-> Headers("alice@corp.example", None, "pass"),
              multipart |-> FALSE, payload |-> body, parts |-> <<>> ]
      [] envelope = "spoofed" ->
            [ headers |-> Headers("alice@corp.example", "eve@evil.example", None),
              multipart |-> FALSE, payload |-> body, parts |-> <<>> ]
      [] envelope = "with_attachment" ->
            [ headers |-> Headers("alice@corp.example", "alice@corp.example", "pass"),
              multipart |-> TRUE, payload |-> <<>>,
              parts |-> << Part("multipart/mixed", None, <<>>, NoFilename),
                           Part("text/plain", None, body, NoFilename),
                           Part("application/octet-stream", "attachment", <<"M","Z">>,
                                <<"i","n","v","o","i","c","e",".","e","x","e">>) >> ]

\* a path names a message file, or no file at all
MissingPath == <<0, "missing">>

Paths == ((DOMAIN AgentBodies) \X Envelopes) \cup {MissingPath}

NoFile == [exists |-> FALSE]

FileAt(path) ==
    IF path = MissingPath THEN NoFile
    ELSE [exists |-> TRUE] @@ Message(path[2], AgentBodies[path[1]])

ModelTypes == {"lr", "rf", "dl", "ensemble", "svm"}

\* the selected features a constructed agent may have loaded
SelectedFeatureSets ==
    { {"suspicious_word_count", "url_count", "spf_present"},
      {"suspicious_word_count", "url_count", "has_spf"} }

(***************************************************************************)
(* agent/email_agent.py: analyze_email, up to the result record.           *)
(***************************************************************************)
\* steps 1 to 3: the parsed message, its cleaned body and its features
extract(file) ==
    IF ~file.exists THEN Raised("FileNotFoundError")
    ELSE IF parse_email_raises(file) THEN Raised("TypeError")
    ELSE
    LET email_data == parse_email(file)
        clean_body == clean_text(email_data["Body_Text"])
        features == extract_all_features(email_data, clean_body)
    IN  [ raised |-> FALSE, email_data |-> email_data,
          clean_body |-> clean_body, features |-> features ]

\* steps 1 to 3 for each path of a set, as a table
RECURSIVE ExtractAll(_)
ExtractAll(paths) ==
    IF paths = {} THEN <<>>
    ELSE LET path == CHOOSE x \in paths : TRUE
         IN (path :> extract(FileAt(path))) @@ ExtractAll(paths \ {path})

Extracted == ExtractAll(Paths)

\* the datetime object that datetime.now() returns at instant t, and the
\* string that str gives for it
datetime(t) == [type |-> "datetime", at |-> t]

str(t) == [type |-> "str", at |-> t]

\* steps 4 to 8 with the findings looked for only when the prediction is 1
analyze_email_risks_if_malicious(extracted, email_path, model_type, replies, selected, now) ==
    IF extracted.raised THEN extracted
    ELSE
    LET email_data == extracted.email_data
        clean_body == extracted.clean_body
        features == extracted.features
    IN  IF ~(selected \subseteq DOMAIN features) THEN Raised("KeyError")
        ELSE
        LET predicted == IF model_type = "ensemble"
                         THEN _ensemble_predict(replies)
                         ELSE _single_model_predict(replies, model_type)
        IN  IF predicted.raised THEN predicted
            ELSE
            LET risks == IF predicted.prediction = 1
                         THEN _detect_risks(email_data, features, clean_body)
                         ELSE <<>>
                classification ==
                    _classify_threat(predicted.prediction, predicted.proba, risks)
            IN  [ raised |-> FALSE,
                  result |->
                    [ timestamp |-> datetime(now),
                      email_path |-> email_path,
                      email_data |-> [ from |-> email_data["From"],
                                       to |-> email_data["To"],
                                       subject |-> email_data["Subject"],
                                       date |-> email_data["Date"] ],
                      prediction |-> predicted.prediction,
                      confidence |-> predicted.proba,
                      classification |-> classification,
                      risks |-> risks,
                      features |-> features,
                      model_used |-> model_type ] ]

\* steps 4 to 8, after steps 1 to 3 gave `extracted`
analyze_email(extracted, email_path, model_type, replies, selected, now) ==
    IF extracted.raised THEN extracted
    ELSE
    LET email_data == extracted.email_data
        clean_body == extracted.clean_body
        features == extracted.features
    IN  IF ~(selected \subseteq DOMAIN features) THEN Raised("KeyError")
        ELSE
        LET predicted == IF model_type = "ensemble"
                         THEN _ensemble_predict(replies)
                         ELSE _single_model_predict(replies, model_type)
        IN  IF predicted.raised THEN predicted
            ELSE
            LET risks == _detect_risks(email_data, features, clean_body)
                classification ==
                    _classify_threat(predicted.prediction, predicted.proba, risks)
            IN  [ raised |-> FALSE,
                  result |->
                    [ timestamp |-> datetime(now),
                      email_path |-> email_path,
                      email_data |-> [ from |-> email_data["From"],
                                       to |-> email_data["To"],
                                       subject |-> email_data["Subject"],
                                       date |-> email_data["Date"] ],
                      prediction |-> predicted.prediction,
                      confidence |-> predicted.proba,
                      classification |-> classification,
                      risks |-> risks,
                      features |-> features,
                      model_used |-> model_type ] ]

\* whether a call gets as far as the prediction
ReachesPrediction(file, selected) ==
    /\ file.exists
    /\ selected \subseteq FeatureSchema

(***************************************************************************)
(* The history file: absent, or a JSON list of records, or text json.load  *)
(* cannot read.                                                            *)
(***************************************************************************)
AbsentFile == [exists |-> FALSE, valid |-> FALSE, records |-> <<>>]

JsonFile(records) == [exists |-> TRUE, valid |-> TRUE, records |-> records]

\* json.dump(..., default=str) of the newest record only
json_dump_newest_only(records) ==
    IF records = <<>> THEN <<>>
    ELSE << [records[Len(records)] EXCEPT
                !.timestamp = IF @.type = "datetime" THEN str(@.at) ELSE @] >>

\* json.dump(self.history, f, default=str): what json.load reads back from
\* what was written; a datetime, which json cannot write, goes through str
json_dump(records) ==
    [i \in DOMAIN records |->
        [records[i] EXCEPT
            !.timestamp = IF @.type = "datetime" THEN str(@.at) ELSE @]]

BrokenFile == [exists |-> TRUE, valid |-> FALSE, records |-> <<>>]

_load_history(file) == IF file.exists /\ file.valid THEN file.records ELSE <<>>

\* a record an earlier run left in the history file
PriorRecord ==
    json_dump(<<
    analyze_email(Extracted[<<2, "authenticated">>], <<2, "authenticated">>, "rf",
                  [m \in Models |-> Returns(Prob(0))],
                  {"suspicious_word_count", "url_count", "spf_present"}, 0).result
    >>)[1]

(***************************************************************************)
(* One EmailSecurityAgent: constructed, then one call of analyze_email.    *)
(***************************************************************************)
NoOutcome == [kind |-> "none"]

Init ==
    /\ selected_features \in SelectedFeatureSets
    /\ historyFile \in {AbsentFile, JsonFile(<<PriorRecord>>), BrokenFile}
    /\ history = _load_history(historyFile)
    /\ clock = Len(history)
    /\ request = [email_path |-> MissingPath, model_type |-> "rf"]
    /\ modelOut = [m \in Models |-> NotInvoked]
    /\ outcome = NoOutcome
    /\ calls = 0
    /\ CleanIdle
    /\ ThreatIdle
    /\ AnalyzerIdle
    /\ FnIdle
    /\ SharedIdle

\* one call analyze_email(email_path, model_type) in which the models do
\* `replies`
Call(email_path, model_type, replies) ==
    LET file == FileAt(email_path)
        done == analyze_email(Extracted[email_path], email_path, model_type, replies,
                              selected_features, clock)
        invoked == IF ReachesPrediction(file, selected_features)
                   THEN Invoked(replies, model_type) ELSE {}
    IN  /\ request' = [email_path |-> email_path, model_type |-> model_type]
        /\ modelOut' = [m \in Models |->
                          IF m \in invoked THEN replies[m] ELSE NotInvoked]
        /\ clock' = IF ReachesPrediction(file, selected_features) /\ ~done.raised
                    THEN clock + 1 ELSE clock
        /\ calls' = calls + 1
        /\ IF done.raised
           THEN /\ outcome' = [kind |-> "raised", error |-> done.error]
                /\ UNCHANGED <<history, historyFile>>
           ELSE \* self.history.append(result); self._save_history()
                \/ /\ history' = Append(history, done.result)
                   /\ historyFile' = JsonFile(json_dump(history'))
                   /\ outcome' = [kind |-> "returned", result |-> done.result]
                \/ \* os.makedirs(), open() or json.dump() raises: the file is
                   \* as it was, or truncated
                   /\ history' = Append(history, done.result)
                   /\ historyFile' \in {historyFile, BrokenFile}
                   /\ outcome' = [kind |-> "raised", error |-> "OSError"]
        /\ UNCHANGED <<selected_features, cleanVars, threatVars, analyzerVars,
                       fnVars, sharedVars>>

\* the first call of an agent
AnalyzeEmail ==
    /\ outcome = NoOutcome
    /\ \E email_path \in Paths, model_type \in ModelTypes,
          replies \in ModelReplies(AgentGridN) :
            Call(email_path, model_type, replies)

Next == AnalyzeEmail

Spec == Init /\ [][Next]_vars

(***************************************************************************)
(* Claims about one call of analyze_email.                                 *)
(***************************************************************************)
Returned == outcome # NoOutcome /\ outcome.kind = "returned"

HasFinding(risks, type, severity) ==
    \E i \in DOMAIN risks : risks[i].type = type /\ risks[i].severity = severity

Verdict(classification) ==
    <<classification.label, classification.level, classification.action>>

(* C1: with model_type 'ensemble' the confidence returned is                *)
(* 0.2*P(lr) + 0.5*P(rf) + 0.3*P(dl) for the probabilities the three models *)
(* returned in the call, each of the three is called, and the three weights *)
(* sum to 1.                                                                *)
C1_EnsembleWeightedSum ==
    (Returned /\ request.model_type = "ensemble") =>
        /\ \A m \in Models : modelOut[m].status = "returned"
        /\ 10 * outcome.result.confidence =
               2 * modelOut["lr"].proba + 5 * modelOut["rf"].proba
                   + 3 * modelOut["dl"].proba
        /\ weights["lr"] + weights["rf"] + weights["dl"] = 10

\* an ensemble call with three different probabilities: 0.25, 1 and 0.5 give
\* 0.05 + 0.5 + 0.15 = 0.7
C1_Witness ==
    /\ Returned
    /\ request.model_type = "ensemble"
    /\ modelOut["lr"].proba = Prob(250)
    /\ modelOut["rf"].proba = Prob(1000)
    /\ modelOut["dl"].proba = Prob(500)
    /\ outcome.result.confidence = Prob(700)

(* C3: when a model call fails in analyze_email, the failure is caught, the *)
(* model counts as probability 0.5 and the call returns a result record.    *)
C3_ModelFailureDegrades ==
    (outcome # NoOutcome /\ \E m \in Models : modelOut[m].status = "raised") =>
        /\ Returned
        /\ request.model_type \in Models =>
               outcome.result.confidence = Prob(500)

(* C4: for a phishing probability p <= 0.5, the verdict is                  *)
(* LEGITIMATE/SAFE/ALLOW when 1 - p > 0.8 and SUSPICIOUS/LOW/FLAG otherwise.*)
C4_LegitimateBranch ==
    (Returned /\ outcome.result.confidence <= Prob(500)) =>
        Verdict(outcome.result.classification) =
            IF Scale - outcome.result.confidence > Prob(800)
            THEN <<"LEGITIMATE", "SAFE", "ALLOW">>
            ELSE <<"SUSPICIOUS", "LOW", "FLAG">>

\* the body text of the message the call was made on
RequestedBody == Extracted[request.email_path].email_data["Body_Text"]

\* the body holds exactly n URLs, all distinct and none of them https
HasDistinctHttpUrls(text, n) ==
    LET urls == FindUrls(text)
    IN /\ Len(urls) = n
       /\ Cardinality(Range(urls)) = n
       /\ \A i \in DOMAIN urls : ~StartsWith(urls[i], <<"h","t","t","p","s">>)

(* C7: a message whose body holds exactly 6 distinct http:// URLs gets      *)
(* url_count = 6 and https_url_count = 0, and the findings MULTIPLE_URLS    *)
(* (MEDIUM) and INSECURE_URLS (HIGH).                                       *)
C7_SixHttpUrls ==
    (Returned /\ HasDistinctHttpUrls(RequestedBody, 6)) =>
        /\ outcome.result.features.url_count = 6
        /\ outcome.result.features.https_url_count = 0
        /\ HasFinding(outcome.result.risks, "MULTIPLE_URLS", "MEDIUM")
        /\ HasFinding(outcome.result.risks, "INSECURE_URLS", "HIGH")

(***************************************************************************)
(* agent/email_agent.py: _single_model_predict, _detect_risks and          *)
(* _classify_threat on their own, steps 5 to 7 of analyze_email.  The      *)
(* features are what extract_all_features gives for the headers, the       *)
(* attachments and the clean text of a message, with the URL counts that   *)
(* extract_url_features gives for a text that still holds its URLs.        *)
(***************************************************************************)
ThreatCleanTexts == {clean_text(PlainWords), clean_text(SuspiciousWords)}

ThreatUrlCounts == {0, 2, MaxUrls}

ThreatUrlFeatures ==
    { [url_count |-> n, https_url_count |-> k, unique_domains |-> n] :
        <<n, k>> \in { c \in ThreatUrlCounts \X (0..MaxUrls) :
                         c[2] \in {0, c[1] \div 2, c[1]} } }

ThreatHeaders ==
    { Headers("alice@corp.example", replyTo, auth) :
        replyTo \in {None, "", "alice@corp.example", "eve@evil.example"},
        auth \in {None, "pass"} }

ThreatAttachments ==
    { <<>>,
      << [ filename |-> <<"i","n","v","o","i","c","e",".","e","x","e">>,
           content_type |-> "application/octet-stream", size |-> 2 ] >> }

ThreatInputs ==
    { [ model_type |-> model_type,
        replies |-> [m \in Models |-> IF m = model_type THEN reply ELSE NotInvoked],
        email_data |-> headers @@ ("Attachments" :> attachments),
        clean_body |-> text,
        features |-> extract_text_features(text)
                       @@ urls
                       @@ extract_header_features(headers)
                       @@ extract_attachment_features(attachments) ] :
        model_type \in Models,
        reply \in {Returns(p) : p \in ProbGrid(FineGridN)},
        headers \in ThreatHeaders,
        attachments \in ThreatAttachments,
        text \in ThreatCleanTexts,
        urls \in ThreatUrlFeatures }

InitThreat ==
    /\ thPc = "input"
    /\ thInput \in ThreatInputs
    /\ thPredicted = <<>>
    /\ thRisks = <<>>
    /\ thClass = <<>>
    /\ CleanIdle
    /\ AgentIdle
    /\ AnalyzerIdle
    /\ FnIdle
    /\ SharedIdle

\* step 5
Predict ==
    /\ thPc = "input"
    /\ thPredicted' = _single_model_predict(thInput.replies, thInput.model_type)
    /\ thPc' = "predicted"
    /\ UNCHANGED <<thInput, thRisks, thClass, cleanVars, agentVars, analyzerVars,
                   fnVars, sharedVars>>

\* step 6
DetectRisks ==
    /\ thPc = "predicted"
    /\ thRisks' = _detect_risks(thInput.email_data, thInput.features, thInput.clean_body)
    /\ thPc' = "detected"
    /\ UNCHANGED <<thInput, thPredicted, thClass, cleanVars, agentVars, analyzerVars,
                   fnVars, sharedVars>>

\* step 7
ClassifyThreat ==
    /\ thPc = "detected"
    /\ thClass' = _classify_threat(thPredicted.prediction, thPredicted.proba, thRisks)
    /\ thPc' = "classified"
    /\ UNCHANGED <<thInput, thPredicted, thRisks, cleanVars, agentVars, analyzerVars,
                   fnVars, sharedVars>>

NextThreat == Predict \/ DetectRisks \/ ClassifyThreat

SpecThreat == InitThreat /\ [][NextThreat]_vars

ThreatTypes(risks) == {risks[i].type : i \in DOMAIN risks}

(* C5: for a message predicted malicious, the level and the action follow   *)
(* the confidence: above 0.9 CRITICAL and BLOCK, above 0.7 and at most 0.9  *)
(* HIGH and QUARANTINE, at most 0.7 MEDIUM and FLAG, the bounds 0.9 and 0.7 *)
(* belonging to the lower tier.                                             *)
C5_MaliciousTiers ==
    (thPc = "classified" /\ thPredicted.prediction = 1) =>
        <<thClass.level, thClass.action>> =
            IF thPredicted.proba > Prob(900) THEN <<"CRITICAL", "BLOCK">>
            ELSE IF thPredicted.proba > Prob(700) THEN <<"HIGH", "QUARANTINE">>
            ELSE <<"MEDIUM", "FLAG">>

\* a malicious message of confidence exactly 0.9 is classified HIGH
C5_Witness ==
    /\ thPc = "classified"
    /\ thPredicted.prediction = 1
    /\ thPredicted.proba = Prob(900)
    /\ thClass.level = "HIGH"
    /\ thClass.action = "QUARANTINE"

(* C6: for a message predicted malicious, the label is MALWARE when a       *)
(* DANGEROUS_ATTACHMENT finding is present, else PHISHING when a            *)
(* MULTIPLE_URLS or an INSECURE_URLS finding is present, else SPAM; the     *)
(* other findings and the confidence have no part in the label.             *)
C6_MaliciousLabel ==
    (thPc = "classified" /\ thPredicted.prediction = 1) =>
        thClass.label =
            IF "DANGEROUS_ATTACHMENT" \in ThreatTypes(thRisks) THEN "MALWARE"
            ELSE IF ThreatTypes(thRisks) \cap {"MULTIPLE_URLS", "INSECURE_URLS"} # {}
                 THEN "PHISHING"
            ELSE "SPAM"

\* a malicious message with a dangerous attachment and insecure URLs is MALWARE
C6_Witness ==
    /\ thPc = "classified"
    /\ thPredicted.prediction = 1
    /\ {"DANGEROUS_ATTACHMENT", "INSECURE_URLS", "SPF_MISSING"} \subseteq ThreatTypes(thRisks)
    /\ thClass.label = "MALWARE"

(***************************************************************************)
(* utils/email_analyzer.py: the features EmailAnalyzer reads from the text *)
(* of a message.                                                           *)
(***************************************************************************)
\* the list of _count_suspicious_words, 'verify' twice as in the source
suspicious_words ==
    << <<"u","r","g","e","n","t">>,
       <<"i","m","m","e","d","i","a","t","e">>,
       <<"v","e","r","i","f","y">>,
       <<"a","c","c","o","u","n","t">>,
       <<"p","a","s","s","w","o","r","d">>,
       <<"l","o","g","i","n">>,
       <<"b","a","n","k">>,
       <<"p","a","y","p","a","l">>,
       <<"s","e","c","u","r","i","t","y">>,
       <<"u","p","d","a","t","e">>,
       <<"c","o","n","f","i","r","m">>,
       <<"s","u","s","p","e","n","d","e","d">>,
       <<"l","i","m","i","t","e","d">>,
       <<"c","l","i","c","k">>,
       <<"l","i","n","k">>,
       <<"v","e","r","i","f","y">>,
       <<"s","e","c","u","r","e">>,
       <<"a","l","e","r","t">>,
       <<"w","a","r","n","i","n","g">>,
       <<"i","m","p","o","r","t","a","n","t">>,
       <<"a","c","t","i","o","n"," ","r","e","q","u","i","r","e","d">>,
       <<"s","e","c","u","r","i","t","y"," ","c","h","e","c","k">>,
       <<"p","h","i","s","h","i","n","g">>,
       <<"f","r","a","u","d">>,
       <<"h","a","c","k">>,
       <<"c","o","m","p","r","o","m","i","s","e","d">>,
       <<"c","r","e","d","e","n","t","i","a","l","s">>,
       <<"a","u","t","h","e","n","t","i","c","a","t","e">> >>

\* word in text
Contains(text, word) == \E i \in 1..Len(text) : StartsWithAt(text, i, word)

\* one count for each entry of the list that occurs somewhere in the text
_count_suspicious_words(text) ==
    LET text_lower == Lower(text)
    IN Cardinality({i \in DOMAIN suspicious_words :
                       Contains(text_lower, suspicious_words[i])})

\* a match of r'https://\S+' starts at i
HttpsUrlAt(s, i) ==
    /\ StartsWithAt(s, i, <<"h","t","t","p","s",":","/","/">>)
    /\ i + 8 <= Len(s)
    /\ ~IsSpace(s[i + 8])

\* len(re.findall(r'https://\S+', text))
RECURSIVE CountHttpsUrlsFrom(_, _)
CountHttpsUrlsFrom(s, i) ==
    LET starts == {j \in i..Len(s) : HttpsUrlAt(s, j)}
    IN IF starts = {} THEN 0
       ELSE 1 + CountHttpsUrlsFrom(s, NonSpaceRunEnd(s, Min(starts) + 8) + 1)

\* a match of r'https?://([^/\s]+)' starts at i
HostAt(s, i) ==
    LET n == UrlPrefixLen(s, i)
    IN n > 0 /\ i + n <= Len(s) /\ ~IsSpace(s[i + n]) /\ s[i + n] # "/"

\* the index of the last character of the run of characters other than '/'
\* and whitespace that starts at i
HostRunEnd(s, i) ==
    Min({e \in i..Len(s) : e = Len(s) \/ IsSpace(s[e + 1]) \/ s[e + 1] = "/"})

\* re.findall(r'https?://([^/\s]+)', text): the group of each match
RECURSIVE FindHostsFrom(_, _)
FindHostsFrom(s, i) ==
    LET starts == {j \in i..Len(s) : HostAt(s, j)}
    IN IF starts = {} THEN <<>>
       ELSE LET b == Min(starts) + UrlPrefixLen(s, Min(starts))
                e == HostRunEnd(s, b)
            IN <<SubSeq(s, b, e)>> \o FindHostsFrom(s, e + 1)

\* url.split('.')
RECURSIVE SplitDots(_)
SplitDots(url) ==
    LET dots == {j \in DOMAIN url : url[j] = "."}
    IN IF dots = {} THEN <<url>>
       ELSE <<SubSeq(url, 1, Min(dots) - 1)>>
            \o SplitDots(SubSeq(url, Min(dots) + 1, Len(url)))

\* url.split('.')[-2] if '.' in url else url
MainDomain(url) ==
    LET labels == SplitDots(url)
    IN IF Len(labels) > 1 THEN labels[Len(labels) - 1] ELSE url

_count_unique_domains(text) ==
    LET urls == FindHostsFrom(text, 1)
    IN Cardinality({MainDomain(urls[i]) : i \in DOMAIN urls})

\* the features with url_count counting the http:// URLs only
extract_features_from_text_http_only(raw) ==
    LET text == Lower(raw)
        urls == FindUrls(text)
    IN [ text_length |-> Len(text),
         word_count |-> Len(Split(text)),
         suspicious_word_count |-> _count_suspicious_words(text),
         url_count |-> Cardinality({i \in DOMAIN urls :
                                      ~StartsWith(urls[i], <<"h","t","t","p","s">>)}),
         https_url_count |-> CountHttpsUrlsFrom(text, 1),
         unique_domains |-> _count_unique_domains(text),
         spf_present |-> 0,
         dkim_present |-> 0,
         dmarc_present |-> 0,
         attachment_count |-> 0,
         dangerous_attachment |-> 0 ]

extract_features_from_text(raw) ==
    LET text == Lower(raw)
    IN [ text_length |-> Len(text),
         word_count |-> Len(Split(text)),
         suspicious_word_count |-> _count_suspicious_words(text),
         url_count |-> Len(FindUrls(text)),
         https_url_count |-> CountHttpsUrlsFrom(text, 1),
         unique_domains |-> _count_unique_domains(text),
         spf_present |-> 0,
         dkim_present |-> 0,
         dmarc_present |-> 0,
         attachment_count |-> 0,
         dangerous_attachment |-> 0 ]

(***************************************************************************)
(* utils/email_analyzer.py: EmailAnalyzer.analyze.  What the scaler and    *)
(* the models do in a call is the environment `env` of the call; the       *)
(* result is written without its timestamp, which nothing else in it       *)
(* depends on.                                                             *)
(***************************************************************************)
\* a failed model call counted as probability 0
guarded_predict_zero(reply) ==
    IF reply.status = "returned" THEN reply.proba ELSE Prob(0)

\* lines 169 to 192: one model call inside its try/except
guarded_predict(reply) ==
    IF reply.status = "returned" THEN reply.proba ELSE Prob(500)

\* the models a call of analyze asks
Asked(models, model_type) ==
    {m \in Models : model_type \in {"ensemble", m} /\ m \in models}

RECURSIVE SumOver(_, _)
SumOver(f, S) ==
    IF S = {} THEN 0
    ELSE LET x == CHOOSE y \in S : TRUE
         IN f[x] + SumOver(f, S \ {x})

\* the mean with the weights of EmailSecurityAgent when the three models are
\* there
Mean_weighted(predictions) ==
    IF DOMAIN predictions = Models
    THEN (2 * predictions["lr"] + 5 * predictions["rf"] + 3 * predictions["dl"]) \div 10
    ELSE SumOver(predictions, DOMAIN predictions) \div Cardinality(DOMAIN predictions)

\* np.mean(list(predictions.values()))
Mean(predictions) ==
    SumOver(predictions, DOMAIN predictions) \div Cardinality(DOMAIN predictions)

\* EmailAnalyzer._detect_risks with INSECURE_URLS from exactly half on
EmailAnalyzer_detect_risks_from_half(features) ==
    When(features.suspicious_word_count > 3,
         Finding("SUSPICIOUS_KEYWORDS", "HIGH",
                 <<features.suspicious_word_count, "mots suspects detectes">>,
                 "Contenu potentiellement frauduleux"))
    \o When(features.url_count > 5,
         Finding("MULTIPLE_URLS", "MEDIUM", <<features.url_count, "URLs detectees">>,
                 "Nombre eleve de liens suspects"))
    \o When(/\ features.url_count > 0
            /\ 2 * features.https_url_count <= features.url_count,
         Finding("INSECURE_URLS", "HIGH", <<"URLs non securisees (HTTP) detectees">>,
                 "Liens potentiellement malveillants"))
    \o When(features.text_length < 50,
         Finding("SHORT_MESSAGE", "LOW", <<"Message tres court">>,
                 "Verifier la legitimite"))

EmailAnalyzer_detect_risks(features) ==
    When(features.suspicious_word_count > 3,
         Finding("SUSPICIOUS_KEYWORDS", "HIGH",
                 <<features.suspicious_word_count, "mots suspects detectes">>,
                 "Contenu potentiellement frauduleux"))
    \o When(features.url_count > 5,
         Finding("MULTIPLE_URLS", "MEDIUM", <<features.url_count, "URLs detectees">>,
                 "Nombre eleve de liens suspects"))
    \o When(/\ features.url_count > 0
            /\ 2 * features.https_url_count < features.url_count,
         Finding("INSECURE_URLS", "HIGH", <<"URLs non securisees (HTTP) detectees">>,
                 "Liens potentiellement malveillants"))
    \o When(features.text_length < 50,
         Finding("SHORT_MESSAGE", "LOW", <<"Message tres court">>,
                 "Verifier la legitimite"))

\* the recommendation downgraded by a finding of any severity
_get_recommendation_any_finding(label, risks) ==
    IF label = "LEGITIMATE" /\ risks # <<>>
    THEN "Email legitime mais avec risques - Verification recommandee"
    ELSE CASE label = "PHISHING" -> "Email malveillant - Bloquer immediatement"
           [] label = "SUSPICIOUS" ->
                  "Email suspect - Mettre en quarantaine pour verification"
           [] label = "SPAM" -> "Email spam - Mettre dans le dossier spam"
           [] label = "LEGITIMATE" -> "Email legitime - Autoriser"
           [] OTHER -> "Email a analyser manuellement"

_get_recommendation(label, risks) ==
    IF /\ label = "LEGITIMATE"
       /\ \E i \in DOMAIN risks : risks[i].severity \in {"HIGH", "CRITICAL"}
    THEN "Email legitime mais avec risques - Verification recommandee"
    ELSE CASE label = "PHISHING" -> "Email malveillant - Bloquer immediatement"
           [] label = "SUSPICIOUS" ->
                  "Email suspect - Mettre en quarantaine pour verification"
           [] label = "SPAM" -> "Email spam - Mettre dans le dossier spam"
           [] label = "LEGITIMATE" -> "Email legitime - Autoriser"
           [] OTHER -> "Email a analyser manuellement"

\* the bands with the bounds 0.7 and 0.4 in the lower band
confidence_band_strict(confidence) ==
    IF confidence > Prob(700)
    THEN [label |-> "PHISHING", level |-> "HIGH", color |-> "#dc3545", action |-> "BLOCK"]
    ELSE IF confidence > Prob(400)
    THEN [label |-> "SUSPICIOUS", level |-> "MEDIUM", color |-> "#ffc107",
          action |-> "QUARANTINE"]
    ELSE [label |-> "LEGITIMATE", level |-> "LOW", color |-> "#28a745", action |-> "ALLOW"]

\* lines 268 to 282: label, level, colour and action of the confidence
confidence_band(confidence) ==
    IF confidence >= Prob(700)
    THEN [label |-> "PHISHING", level |-> "HIGH", color |-> "#dc3545", action |-> "BLOCK"]
    ELSE IF confidence >= Prob(400)
    THEN [label |-> "SUSPICIOUS", level |-> "MEDIUM", color |-> "#ffc107",
          action |-> "QUARANTINE"]
    ELSE [label |-> "LEGITIMATE", level |-> "LOW", color |-> "#28a745", action |-> "ALLOW"]

\* the SPAM test reading the number of words
is_spam_by_word_count(features) ==
    features.word_count > 5 /\ features.url_count = 0

\* lines 284 to 290: the features that turn the verdict into SPAM
is_spam(features) ==
    features.suspicious_word_count > 5 /\ features.url_count = 0

_classify_email(confidence, features, risks) ==
    LET verdict == IF is_spam(features)
                   THEN [label |-> "SPAM", level |-> "MEDIUM", color |-> "#6c757d",
                         action |-> "SPAM_FOLDER"]
                   ELSE confidence_band(confidence)
    IN verdict @@ [recommendation |-> _get_recommendation(verdict.label, risks)]

NoFeatures == <<>>

\* _default_result with the confidence 0 in the place of 0.5
_default_result_zero_confidence ==
    [ classification |-> [ label |-> "ERROR", level |-> "UNKNOWN", color |-> "#6c757d",
                           action |-> "REVIEW",
                           recommendation |-> "Erreur lors de l'analyse" ],
      confidence |-> Prob(0),
      predictions |-> <<>>,
      features |-> NoFeatures,
      risks |-> <<>>,
      model_used |-> "error" ]

_default_result ==
    [ classification |-> [ label |-> "ERROR", level |-> "UNKNOWN", color |-> "#6c757d",
                           action |-> "REVIEW",
                           recommendation |-> "Erreur lors de l'analyse" ],
      confidence |-> Prob(500),
      predictions |-> <<>>,
      features |-> NoFeatures,
      risks |-> <<>>,
      model_used |-> "error" ]

\* the values of the selected features, 0 for a name the features lack
FeatureValues(selected, features) ==
    [f \in selected |-> IF f \in DOMAIN features THEN features[f] ELSE 0]

\* analyze with the ERROR result for a model type it does not know
analyze_known_types_only(self, features, model_type, env) ==
    IF ~self.selected_features.loaded THEN _default_result
    ELSE IF self.scaler /\ env.scaler = "raised" THEN _default_result
    ELSE IF model_type \notin Models \cup {"ensemble"} THEN _default_result
    ELSE
    LET predictions == [m \in Asked(self.models, model_type) |->
                            guarded_predict(env.replies[m])]
        confidence == IF model_type = "ensemble" /\ DOMAIN predictions # {}
                      THEN Mean(predictions)
                      ELSE IF model_type \in DOMAIN predictions
                      THEN predictions[model_type]
                      ELSE Prob(500)
        risks == EmailAnalyzer_detect_risks(features)
    IN [ classification |-> _classify_email(confidence, features, risks),
         confidence |-> confidence,
         predictions |-> predictions,
         features |-> features,
         risks |-> risks,
         model_used |-> model_type ]

\* analyze after its first statement gave `features`; self is the analyzer's
\* models, scaler and selected_features
analyze(self, features, model_type, env) ==
    IF ~self.selected_features.loaded THEN _default_result
    ELSE IF self.scaler /\ env.scaler = "raised" THEN _default_result
    ELSE
    LET predictions == [m \in Asked(self.models, model_type) |->
                            guarded_predict(env.replies[m])]
        confidence == IF model_type = "ensemble" /\ DOMAIN predictions # {}
                      THEN Mean(predictions)
                      ELSE IF model_type \in DOMAIN predictions
                      THEN predictions[model_type]
                      ELSE Prob(500)
        risks == EmailAnalyzer_detect_risks(features)
    IN [ classification |-> _classify_email(confidence, features, risks),
         confidence |-> confidence,
         predictions |-> predictions,
         features |-> features,
         risks |-> risks,
         model_used |-> model_type ]

(***************************************************************************)
(* utils/email_analyzer.py: an EmailAnalyzer and one call of analyze.      *)
(***************************************************************************)
\* _load_models: what the analyzer holds when every load succeeded, and
\* when the load at `stage` raised and the handler put the default 'dl'
\* model in place
LoadStages == <<"lr", "rf", "weights", "scaler", "selected_features">>

\* self.selected_features: None, or the names that were loaded
NoSelection == [loaded |-> FALSE, names |-> {}]

Selection(names) == [loaded |-> TRUE, names |-> names]

Loaded(selected) ==
    [models |-> Models, scaler |-> TRUE, selected_features |-> Selection(selected)]

\* _load_models as if the selected features were loaded first: a later
\* failure leaves them in place
LoadFailedAt_selection_first(stage) ==
    [ models |-> CASE stage = "lr" -> {"dl"}
                   [] stage = "rf" -> {"lr", "dl"}
                   [] OTHER -> Models,
      scaler |-> (stage = "selected_features"),
      selected_features |->
          IF stage = "selected_features" THEN NoSelection
          ELSE Selection({"suspicious_word_count", "url_count", "spf_present"}) ]

LoadFailedAt(stage) ==
    [ models |-> CASE stage = "lr" -> {"dl"}
                   [] stage = "rf" -> {"lr", "dl"}
                   [] OTHER -> Models,
      scaler |-> (stage = "selected_features"),
      selected_features |-> NoSelection ]

Analyzers ==
    {Loaded(selected) : selected \in SelectedFeatureSets}
        \cup {LoadFailedAt(LoadStages[i]) : i \in DOMAIN LoadStages}

LongerSuspicious ==
    <<"U","R","G","E","N","T",":"," ","v","e","r","i","f","y"," ","y","o","u","r"," ","a","c">>
    \o <<"c","o","u","n","t"," ","p","a","s","s","w","o","r","d"," ","n","o","w"," ","o","k">>

ManySuspicious ==
    <<"u","r","g","e","n","t"," ","v","e","r","i","f","y"," ","a","c","c","o","u","n","t"," ","p","a","s","s","w","o">>
    \o <<"r","d"," ","l","o","g","i","n"," ","b","a","n","k"," ","a","l","e","r","t"," ","w","a","r","n","i","n","g">>

AnalyzerTexts ==
    { Body(words, nHttp, nHttps) :
        words \in {<<>>, PlainWords, SuspiciousWords, LongerSuspicious, ManySuspicious},
        nHttp \in {0, 1, MaxUrls},
        nHttps \in {0, 1} }

\* extract_features_from_text for each text of a set, as a table
RECURSIVE FeaturesOfAll(_)
FeaturesOfAll(texts) ==
    IF texts = {} THEN <<>>
    ELSE LET text == CHOOSE x \in texts : TRUE
         IN (text :> extract_features_from_text(text)) @@ FeaturesOfAll(texts \ {text})

TextFeatures == FeaturesOfAll(AnalyzerTexts)

\* what the scaler and the models may do in a call: nothing is called when
\* the selected features are missing; the scaler raises; or the scaler
\* returns and each model that is asked returns a probability or raises
Environments(self, model_type) ==
    IF ~self.selected_features.loaded
    THEN {[scaler |-> "not_invoked", replies |-> [m \in Models |-> NotInvoked]]}
    ELSE {[scaler |-> "raised", replies |-> [m \in Models |-> NotInvoked]]}
         \cup
         { [scaler |-> "returned", replies |-> replies] :
             replies \in
               { r \in [Models -> {Returns(p) : p \in ProbGrid(FineGridN)}
                                    \cup {Raises, NotInvoked}] :
                   /\ \A m \in Models :
                        (r[m] = NotInvoked) <=> (m \notin Asked(self.models, model_type))
                   /\ model_type = "ensemble" =>
                        \A m \in Models :
                            r[m].status = "returned" => r[m].proba \in ProbGrid(AgentGridN) } }

InitAnalyzer ==
    /\ \E self \in Analyzers :
          /\ analyzerModels = self.models
          /\ analyzerScaler = self.scaler
          /\ analyzerSelected = self.selected_features
    /\ analyzerRequest = <<>>
    /\ analyzerModelOut = <<>>
    /\ analyzerResult = <<>>
    /\ analyzerLog = <<>>
    /\ CleanIdle
    /\ AgentIdle
    /\ ThreatIdle
    /\ FnIdle
    /\ SharedIdle

\* one call analyze(email_text, model_type) in which the scaler and the
\* models do `env`
AnalyzeCall(email_text, model_type, env) ==
    LET self == [ models |-> analyzerModels, scaler |-> analyzerScaler,
                  selected_features |-> analyzerSelected ]
        result == analyze(self, TextFeatures[email_text], model_type, env)
    IN  /\ analyzerRequest' = [email_text |-> email_text, model_type |-> model_type]
        /\ analyzerModelOut' =
               env @@ [X |-> IF env.scaler = "not_invoked" THEN <<>>
                             ELSE FeatureValues(analyzerSelected.names,
                                                TextFeatures[email_text])]
        /\ analyzerResult' = result
        /\ analyzerLog' = Append(analyzerLog,
                                 [ email_text |-> email_text, model_type |-> model_type,
                                   result |-> result ])
        /\ UNCHANGED <<analyzerModels, analyzerScaler, analyzerSelected,
                       cleanVars, agentVars, threatVars, fnVars, sharedVars>>

\* the first call of an analyzer
Analyze ==
    /\ analyzerRequest = <<>>
    /\ LET self == [ models |-> analyzerModels, scaler |-> analyzerScaler,
                     selected_features |-> analyzerSelected ]
       IN \E email_text \in AnalyzerTexts, model_type \in ModelTypes :
            \E env \in Environments(self, model_type) :
               AnalyzeCall(email_text, model_type, env)

NextAnalyzer == Analyze

SpecAnalyzer == InitAnalyzer /\ [][NextAnalyzer]_vars

(***************************************************************************)
(* Claims about one call of EmailAnalyzer.analyze.                         *)
(***************************************************************************)
Analyzed == analyzerRequest # <<>>

\* the call got as far as the model calls
ReachedModels == Analyzed /\ analyzerModelOut.scaler = "returned"

AnalyzerVerdict ==
    << analyzerResult.classification.label, analyzerResult.classification.level,
       analyzerResult.classification.action >>

(* C2: in an ensemble call of analyze on a loaded analyzer, whatever subset *)
(* of the three model calls fails, the predictions map has an entry for     *)
(* each of the three models, 0.5 for a model that failed and the model's    *)
(* output for a model that returned, and the result is not the ERROR one.   *)
C2_EnsembleDegrades ==
    (ReachedModels /\ analyzerRequest.model_type = "ensemble") =>
        /\ DOMAIN analyzerResult.predictions = Models
        /\ \A m \in Models :
              /\ analyzerModelOut.replies[m].status \in {"returned", "raised"}
              /\ analyzerModelOut.replies[m].status = "raised" =>
                     analyzerResult.predictions[m] = Prob(500)
              /\ analyzerModelOut.replies[m].status = "returned" =>
                     analyzerResult.predictions[m] = analyzerModelOut.replies[m].proba
        /\ analyzerResult.classification.label # "ERROR"
        /\ analyzerResult.model_used = "ensemble"

\* lr and dl fail, rf returns 1: the confidence is (0.5 + 1 + 0.5) / 3
C2_Witness ==
    /\ ReachedModels
    /\ analyzerRequest.model_type = "ensemble"
    /\ analyzerModelOut.replies["lr"].status = "raised"
    /\ analyzerModelOut.replies["dl"].status = "raised"
    /\ analyzerModelOut.replies["rf"] = Returns(Prob(1000))
    /\ analyzerResult.confidence = (2 * Scale) \div 3
    /\ analyzerResult.classification.label = "SUSPICIOUS"

\* the classification that _classify_email gives the confidence and the
\* findings of the call with the features of the text t
ClassifiedWith(t) ==
    _classify_email(analyzerResult.confidence, TextFeatures[t], analyzerResult.risks)

SameFindings(t) == EmailAnalyzer_detect_risks(TextFeatures[t]) = analyzerResult.risks

SameSpamFeatures(t) ==
    /\ TextFeatures[t].suspicious_word_count = analyzerResult.features.suspicious_word_count
    /\ TextFeatures[t].url_count = analyzerResult.features.url_count

(* C9, as claimed: two calls of _classify_email with the same confidence    *)
(* and the same findings return the same label, level, action and           *)
(* recommendation, whatever the feature vectors are.                        *)
C9_FunctionOfConfidenceAndFindings ==
    ReachedModels =>
        \A t \in AnalyzerTexts :
            SameFindings(t) => ClassifiedWith(t) = analyzerResult.classification

(* C9, amended: two calls of _classify_email with the same confidence, the  *)
(* same findings and feature vectors that agree on suspicious_word_count    *)
(* and on url_count return the same label, level, action and                *)
(* recommendation, whatever the other features are.                         *)
C9_FunctionGivenSpamFeatures ==
    ReachedModels =>
        \A t \in AnalyzerTexts :
            (SameFindings(t) /\ SameSpamFeatures(t)) =>
                ClassifiedWith(t) = analyzerResult.classification

\* a call whose findings and SPAM features another text shares, with other
\* features (its length and its number of words)
C9_Witness ==
    /\ ReachedModels
    /\ analyzerRequest.email_text = SuspiciousWords
    /\ analyzerResult.confidence = Prob(700)
    /\ SameFindings(LongerSuspicious)
    /\ SameSpamFeatures(LongerSuspicious)
    /\ TextFeatures[LongerSuspicious].word_count # analyzerResult.features.word_count
    /\ ClassifiedWith(LongerSuspicious).label = "PHISHING"

(* C10: the verdict of _classify_email is SPAM/MEDIUM/SPAM_FOLDER when      *)
(* suspicious_word_count > 5 and url_count = 0, whatever the confidence;    *)
(* otherwise PHISHING/HIGH/BLOCK for a confidence of at least 0.7,          *)
(* SUSPICIOUS/MEDIUM/QUARANTINE from 0.4 up to 0.7 excluded, and            *)
(* LEGITIMATE/LOW/ALLOW below 0.4.                                          *)
C10_DecisionTable ==
    ReachedModels =>
        AnalyzerVerdict =
            IF /\ analyzerResult.features.suspicious_word_count > 5
               /\ analyzerResult.features.url_count = 0
            THEN <<"SPAM", "MEDIUM", "SPAM_FOLDER">>
            ELSE IF analyzerResult.confidence >= Prob(700)
            THEN <<"PHISHING", "HIGH", "BLOCK">>
            ELSE IF analyzerResult.confidence >= Prob(400)
            THEN <<"SUSPICIOUS", "MEDIUM", "QUARANTINE">>
            ELSE <<"LEGITIMATE", "LOW", "ALLOW">>

\* a text of many suspicious words and no URL is SPAM at confidence 0.9
C10_Witness ==
    /\ ReachedModels
    /\ analyzerResult.features.suspicious_word_count > 5
    /\ analyzerResult.features.url_count = 0
    /\ analyzerResult.confidence = Prob(900)
    /\ AnalyzerVerdict = <<"SPAM", "MEDIUM", "SPAM_FOLDER">>

HasSevereFinding(risks) ==
    \E i \in DOMAIN risks : risks[i].severity \in {"HIGH", "CRITICAL"}

(* C11: a LEGITIMATE verdict whose findings hold a HIGH or CRITICAL one     *)
(* keeps label, level and action LEGITIMATE/LOW/ALLOW and gets the          *)
(* manual-review recommendation; every other verdict gets the fixed text of *)
(* its label, whatever the findings are.                                    *)
C11_RecommendationDowngrade ==
    ReachedModels =>
        LET label == analyzerResult.classification.label
        IN  /\ label = "LEGITIMATE" => AnalyzerVerdict = <<"LEGITIMATE", "LOW", "ALLOW">>
            /\ analyzerResult.classification.recommendation =
              IF label = "LEGITIMATE" /\ HasSevereFinding(analyzerResult.risks)
              THEN "Email legitime mais avec risques - Verification recommandee"
              ELSE IF label = "PHISHING" THEN "Email malveillant - Bloquer immediatement"
              ELSE IF label = "SUSPICIOUS"
              THEN "Email suspect - Mettre en quarantaine pour verification"
              ELSE IF label = "SPAM" THEN "Email spam - Mettre dans le dossier spam"
              ELSE "Email legitime - Autoriser"

\* a message with one http URL at confidence 0: LEGITIMATE/LOW/ALLOW with the
\* HIGH finding INSECURE_URLS and the manual-review text
C11_Witness ==
    /\ ReachedModels
    /\ AnalyzerVerdict = <<"LEGITIMATE", "LOW", "ALLOW">>
    /\ \E i \in DOMAIN analyzerResult.risks :
          /\ analyzerResult.risks[i].type = "INSECURE_URLS"
          /\ analyzerResult.risks[i].severity = "HIGH"
    /\ analyzerResult.classification.recommendation =
          "Email legitime mais avec risques - Verification recommandee"

(***************************************************************************)
(* The two feature extractors on their own: extract_all_features on the    *)
(* body of a parsed message, cleaned as analyze_email cleans it or as it   *)
(* is, and EmailAnalyzer.extract_features_from_text on the same body.      *)
(***************************************************************************)
FeaturePieces ==
    << <<"h","t","t","p",":","/","/">>, <<"h","t","t","p","s",":","/","/">>,
       <<"H","T","T","P","S",":","/","/">>, <<"a",".","i","o">>, <<"/">>, <<" ">>,
       <<"u","r","g","e","n","t">>, <<"V","e","r","i","f","y">> >>

RECURSIVE FeatureTexts(_)
FeatureTexts(n) ==
    IF n = 0 THEN {<<>>}
    ELSE LET prev == FeatureTexts(n - 1)
         IN prev \cup {x \o FeaturePieces[i] : x \in prev, i \in DOMAIN FeaturePieces}

InitFeatures ==
    /\ fnPc = "input"
    /\ fnIn \in {parse_email(Message(envelope, text)) :
                    envelope \in Envelopes, text \in FeatureTexts(MaxPieces)}
    /\ fnOut = <<>>
    /\ CleanIdle
    /\ AgentIdle
    /\ ThreatIdle
    /\ AnalyzerIdle
    /\ SharedIdle

ExtractAllFeatures ==
    /\ fnPc = "input"
    /\ \E text \in {fnIn["Body_Text"], clean_text(fnIn["Body_Text"])} :
          fnOut' = [ by |-> "extract_all_features", text |-> text,
                     features |-> extract_all_features(fnIn, text) ]
    /\ fnPc' = "extracted"
    /\ UNCHANGED <<fnIn, cleanVars, agentVars, threatVars, analyzerVars, sharedVars>>

ExtractFeaturesFromText ==
    /\ fnPc = "input"
    /\ fnOut' = [ by |-> "extract_features_from_text", text |-> fnIn["Body_Text"],
                  features |-> extract_features_from_text(fnIn["Body_Text"]) ]
    /\ fnPc' = "extracted"
    /\ UNCHANGED <<fnIn, cleanVars, agentVars, threatVars, analyzerVars, sharedVars>>

NextFeatures == ExtractAllFeatures \/ ExtractFeaturesFromText

SpecFeatures == InitFeatures /\ [][NextFeatures]_vars

(* C12: the vector of either extractor has the 11 keys of the schema, each  *)
(* value a non-negative integer, the three authentication flags 0 or 1,     *)
(* and https_url_count at most url_count.                                   *)
C12_FeatureSchema ==
    fnPc = "extracted" =>
        /\ DOMAIN fnOut.features = FeatureSchema
        /\ \A k \in DOMAIN fnOut.features : fnOut.features[k] \in Nat
        /\ \A k \in {"spf_present", "dkim_present", "dmarc_present"} :
              fnOut.features[k] \in {0, 1}
        /\ fnOut.features.https_url_count <= fnOut.features.url_count

\* the degraded extractor on a text that begins with an upper-case HTTPS URL
C12_Witness ==
    /\ fnPc = "extracted"
    /\ fnOut.by = "extract_features_from_text"
    /\ StartsWith(fnOut.text, <<"H","T","T","P","S",":","/","/","a">>)
    /\ fnOut.features.url_count = 1
    /\ fnOut.features.https_url_count = 1

(***************************************************************************)
(* Claims about EmailSecurityAgent._detect_risks on its own.               *)
(***************************************************************************)
\* the rules in the order of the source, each with whether its trigger holds
\* for the message and the features handed to _detect_risks
ThreatRules ==
    LET f == thInput.features
        replyTo == thInput.email_data["Reply-To"]
    IN << <<"SPF_MISSING", "HIGH", f.spf_present = 0>>,
          <<"DKIM_MISSING", "HIGH", f.dkim_present = 0>>,
          <<"DMARC_MISSING", "MEDIUM", f.dmarc_present = 0>>,
          <<"SUSPICIOUS_KEYWORDS", "MEDIUM", f.suspicious_word_count > 0>>,
          <<"MULTIPLE_URLS", "MEDIUM", f.url_count > 5>>,
          <<"INSECURE_URLS", "HIGH", f.url_count > 0 /\ 2 * f.https_url_count < f.url_count>>,
          <<"DANGEROUS_ATTACHMENT", "CRITICAL", f.dangerous_attachment = 1>>,
          <<"FROM_REPLY_MISMATCH", "HIGH",
            replyTo \notin {None, ""} /\ replyTo # thInput.email_data["From"]>> >>

RuleHolds(rule) == rule[3]

TypesAndSeverities(risks) == [i \in DOMAIN risks |-> <<risks[i].type, risks[i].severity>>]

(* C13: _detect_risks returns the findings whose trigger holds, each once   *)
(* and in the order SPF_MISSING, DKIM_MISSING, DMARC_MISSING,               *)
(* SUSPICIOUS_KEYWORDS, MULTIPLE_URLS, INSECURE_URLS, DANGEROUS_ATTACHMENT, *)
(* FROM_REPLY_MISMATCH, with the severities of the rules, no rule           *)
(* suppressing another.  A Reply-To is present when it holds a value that   *)
(* is not empty.                                                            *)
C13_FindingsInOrder ==
    thPc \in {"detected", "classified"} =>
        LET expected == SelectSeq(ThreatRules, RuleHolds)
        IN TypesAndSeverities(thRisks) =
              [i \in DOMAIN expected |-> <<expected[i][1], expected[i][2]>>]

\* a message for which the eight triggers hold: the eight findings in order
C13_Witness ==
    /\ thPc = "detected"
    /\ [i \in DOMAIN thRisks |-> thRisks[i].type] =
          << "SPF_MISSING", "DKIM_MISSING", "DMARC_MISSING", "SUSPICIOUS_KEYWORDS",
             "MULTIPLE_URLS", "INSECURE_URLS", "DANGEROUS_ATTACHMENT",
             "FROM_REPLY_MISMATCH" >>

(***************************************************************************)
(* The full risk detector, extract_all_features followed by _detect_risks  *)
(* as in steps 2, 3 and 6 of analyze_email, on a parsed message before and *)
(* after a dangerous attachment is added to it.                            *)
(***************************************************************************)
FullRisks(email_data) ==
    LET clean_body == clean_text(email_data["Body_Text"])
    IN _detect_risks(email_data, extract_all_features(email_data, clean_body), clean_body)

Attachment(filename) ==
    [filename |-> filename, content_type |-> "application/octet-stream", size |-> 2]

HarmlessAttachments ==
    { <<>>,
      <<Attachment(<<"n","o","t","e","s",".","t","x","t">>)>>,
      <<Attachment(NoFilename), Attachment(<<"s","e","t","u","p",".","E","X","E">>)>> }

\* parsed messages without a dangerous attachment
SafeMessages ==
    { [h \in DOMAIN parsed \ {"Attachments"} |-> parsed[h]]
          @@ ("Attachments" :> attachments) :
        parsed \in {parse_email(Message(envelope, AgentBodies[b])) :
                       envelope \in {"authenticated", "spoofed"}, b \in DOMAIN AgentBodies},
        attachments \in HarmlessAttachments }

InitAttach ==
    /\ fnPc = "message"
    /\ fnIn \in SafeMessages
    /\ fnOut = <<>>
    /\ CleanIdle
    /\ AgentIdle
    /\ ThreatIdle
    /\ AnalyzerIdle
    /\ SharedIdle

DetectBefore ==
    /\ fnPc = "message"
    /\ fnOut' = [before |-> FullRisks(fnIn), after |-> <<>>]
    /\ fnPc' = "detected"
    /\ UNCHANGED <<fnIn, cleanVars, agentVars, threatVars, analyzerVars, sharedVars>>

\* one more attachment part in the message, first or last, its file name
\* ending in a dangerous extension
AttachDangerous ==
    /\ fnPc = "detected"
    /\ \E ext \in DANGEROUS_EXTENSIONS, first \in BOOLEAN :
          LET added == <<Attachment(<<"p","a","y">> \o ext)>>
              attachments == IF first THEN added \o fnIn["Attachments"]
                             ELSE fnIn["Attachments"] \o added
          IN fnIn' = [fnIn EXCEPT !["Attachments"] = attachments]
    /\ fnPc' = "attached"
    /\ UNCHANGED <<fnOut, cleanVars, agentVars, threatVars, analyzerVars, sharedVars>>

DetectAfter ==
    /\ fnPc = "attached"
    /\ fnOut' = [fnOut EXCEPT !.after = FullRisks(fnIn)]
    /\ fnPc' = "redetected"
    /\ UNCHANGED <<fnIn, cleanVars, agentVars, threatVars, analyzerVars, sharedVars>>

NextAttach == DetectBefore \/ AttachDangerous \/ DetectAfter

SpecAttach == InitAttach /\ [][NextAttach]_vars

IsAttachmentFinding(risk) == risk.type = "DANGEROUS_ATTACHMENT"

IsOtherFinding(risk) == risk.type # "DANGEROUS_ATTACHMENT"

(* C14: for a message without a dangerous attachment, the findings after a  *)
(* dangerous attachment is added are the findings before, unchanged and in  *)
(* the same order, plus one DANGEROUS_ATTACHMENT finding of severity        *)
(* CRITICAL.                                                                *)
C14_AttachmentMonotonic ==
    fnPc = "redetected" =>
        /\ SelectSeq(fnOut.after, IsOtherFinding) = fnOut.before
        /\ Len(SelectSeq(fnOut.after, IsAttachmentFinding)) = 1
        /\ \A i \in DOMAIN fnOut.after :
              IsAttachmentFinding(fnOut.after[i]) => fnOut.after[i].severity = "CRITICAL"
        /\ SelectSeq(fnOut.before, IsAttachmentFinding) = <<>>

\* a spoofed message with a harmless attachment: the dangerous one, added
\* last, puts its finding between the four earlier findings and
\* FROM_REPLY_MISMATCH
C14_Witness ==
    /\ fnPc = "redetected"
    /\ Len(fnIn["Attachments"]) = 2
    /\ fnIn["Attachments"][1].filename = <<"n","o","t","e","s",".","t","x","t">>
    /\ Len(fnOut.before) = 5
    /\ Len(fnOut.after) = 6
    /\ fnOut.after[5].type = "DANGEROUS_ATTACHMENT"
    /\ fnOut.after[6].type = "FROM_REPLY_MISMATCH"

(***************************************************************************)
(* Several calls in a row: of analyze_email on one EmailSecurityAgent, of  *)
(* analyze on one EmailAnalyzer.                                           *)
(***************************************************************************)
RepeatPaths == {MissingPath, <<2, "authenticated">>, <<3, "spoofed">>}

RepeatModelTypes == {"rf", "ensemble"}

\* every model returns 0, every model returns 1, or rf raises
RepeatReplies ==
    { [m \in Models |-> Returns(Prob(0))],
      [m \in Models |-> Returns(Prob(1000))],
      [m \in Models |-> IF m = "rf" THEN Raises ELSE Returns(Prob(1000))] }

AnalyzeEmailNext ==
    /\ selected_features # {}
    /\ calls < MaxCalls
    /\ \E email_path \in RepeatPaths, model_type \in RepeatModelTypes,
          replies \in RepeatReplies :
            Call(email_path, model_type, replies)

SpecHistory == Init /\ [][AnalyzeEmailNext]_vars

RepeatTexts == {SuspiciousWords, Body(PlainWords, 1, 0), ManySuspicious}

RepeatEnvironments(self, model_type) ==
    IF ~self.selected_features.loaded
    THEN {[scaler |-> "not_invoked", replies |-> [m \in Models |-> NotInvoked]]}
    ELSE {[scaler |-> "raised", replies |-> [m \in Models |-> NotInvoked]]}
         \cup
         { [ scaler |-> "returned",
             replies |-> [m \in Models |->
                            IF m \in Asked(self.models, model_type)
                            THEN r[m] ELSE NotInvoked] ] : r \in RepeatReplies }

AnalyzeNext ==
    /\ analyzerModels # {}
    /\ Len(analyzerLog) < MaxCalls
    /\ LET self == [ models |-> analyzerModels, scaler |-> analyzerScaler,
                     selected_features |-> analyzerSelected ]
       IN \E email_text \in RepeatTexts, model_type \in RepeatModelTypes :
            \E env \in RepeatEnvironments(self, model_type) :
               AnalyzeCall(email_text, model_type, env)

InitRuns == Init \/ InitAnalyzer

NextRuns == AnalyzeEmailNext \/ AnalyzeNext

SpecRuns == InitRuns /\ [][NextRuns]_vars

\* the message at a path has a Reply-To that differs from its From
ReplyToDiffers(email_path) ==
    LET email_data == Extracted[email_path].email_data
    IN email_data["Reply-To"] \notin {None, "", email_data["From"]}

(* C15: the findings do not depend on the models: the results of            *)
(* analyze_email for the same message have the same findings, whatever the  *)
(* model type and the probabilities were, and so have the results of        *)
(* analyze for the same text that are not the ERROR result; the results of  *)
(* analyze_email for a message whose Reply-To differs from its From all     *)
(* have the finding FROM_REPLY_MISMATCH of severity HIGH.                   *)
C15_FindingsIgnoreModel ==
    /\ \A i, j \in DOMAIN history :
          history[i].email_path = history[j].email_path =>
              history[i].risks = history[j].risks
    /\ \A i \in DOMAIN history :
          ReplyToDiffers(history[i].email_path) =>
              HasFinding(history[i].risks, "FROM_REPLY_MISMATCH", "HIGH")
    /\ \A i, j \in DOMAIN analyzerLog :
          ( /\ analyzerLog[i].email_text = analyzerLog[j].email_text
            /\ analyzerLog[i].result.model_used # "error"
            /\ analyzerLog[j].result.model_used # "error" ) =>
              analyzerLog[i].result.risks = analyzerLog[j].result.risks

\* two results for the same spoofed message, one by rf at probability 0 and
\* one by the ensemble at probability 1, both with FROM_REPLY_MISMATCH
C15_Witness ==
    /\ calls = 2
    /\ Len(history) >= 2
    /\ LET a == history[Len(history) - 1]
           b == history[Len(history)]
       IN /\ a.email_path = <<3, "spoofed">>
          /\ b.email_path = <<3, "spoofed">>
          /\ a.model_used = "rf" /\ a.confidence = Prob(0)
          /\ b.model_used = "ensemble" /\ b.confidence = Prob(1000)
          /\ HasFinding(a.risks, "FROM_REPLY_MISMATCH", "HIGH")
          /\ a.risks = b.risks

\* a model that analyze asked raised; the handler around that one call took it
ModelFailed ==
    \E m \in Models : analyzerModelOut.replies[m] = Raises

\* an exception reached the handler of analyze: the selected features are
\* None, or the scaler raised
EscapingFailure ==
    \/ ~analyzerSelected.loaded
    \/ analyzerModelOut.scaler = "raised"

C17_RaiseLeavesHistory ==
    [][ (calls' = calls + 1 /\ outcome'.kind = "raised")
            => (history' = history /\ historyFile' = historyFile) ]_vars

\* the records of the file are those of the history, in order, the
\* timestamps as strings
FileHoldsHistory(file, records) ==
    /\ file.exists /\ file.valid
    /\ Len(file.records) = Len(records)
    /\ \A i \in DOMAIN records :
          /\ file.records[i].timestamp = str(records[i].timestamp.at)
          /\ \A k \in DOMAIN records[i] \ {"timestamp"} :
                file.records[i][k] = records[i][k]

(* C19: over the calls of analyze_email on one agent, the history only      *)
(* grows at its end: every call leaves the records already present, those  *)
(* loaded at start-up included, as they were and where they were; a call    *)
(* that returns adds exactly one record, the result it returns, at the end, *)
(* and afterwards the history file holds the records of the history.        *)
C19_AppendOnly ==
    [][ calls' = calls + 1 =>
          /\ Len(history') >= Len(history)
          /\ SubSeq(history', 1, Len(history)) = history
          /\ outcome'.kind = "returned" =>
                /\ history' = Append(history, outcome'.result)
                /\ FileHoldsHistory(historyFile', history') ]_vars

\* the second call in a row returned, on an agent that loaded one record
C19_Witness ==
    /\ calls = MaxCalls
    /\ outcome.kind = "returned"
    /\ Len(history) = MaxCalls + 1
    /\ history[1] = PriorRecord
    /\ history[Len(history)] = outcome.result
    /\ FileHoldsHistory(historyFile, history)

(***************************************************************************)
(* agent/email_agent.py: callers of analyze_email that run at the same     *)
(* time over one history file, each on its own EmailSecurityAgent or all   *)
(* on one.  A caller's steps are the statements of the source: __init__    *)
(* loads the history, analyze_email assembles its result, appends it to    *)
(* the agent's history, and _save_history opens the file for writing,      *)
(* which empties it, and dumps the agent's history into it.                *)
(***************************************************************************)
Callers == 1..MaxCallers

SharedSelected == {"suspicious_word_count", "url_count", "spf_present"}

InitShared ==
    /\ sharedFile \in {AbsentFile, JsonFile(<<PriorRecord>>)}
    /\ sharedAgents \in {[c \in Callers |-> c], [c \in Callers |-> 1]}
    /\ sharedHistory = [a \in Callers |-> <<>>]
    /\ sharedPc = [c \in Callers |-> "new"]
    /\ sharedResult = [c \in Callers |-> <<>>]
    /\ CleanIdle
    /\ AgentIdle
    /\ ThreatIdle
    /\ AnalyzerIdle
    /\ FnIdle

\* EmailSecurityAgent(): self.history = self._load_history()
Construct(a) ==
    /\ \E c \in Callers : sharedAgents[c] = a /\ sharedPc[c] = "new"
    /\ sharedHistory' = [sharedHistory EXCEPT ![a] = _load_history(sharedFile)]
    /\ sharedPc' = [c \in Callers |->
                      IF sharedAgents[c] = a THEN "ready" ELSE sharedPc[c]]
    /\ UNCHANGED <<sharedFile, sharedAgents, sharedResult,
                   cleanVars, agentVars, threatVars, analyzerVars, fnVars>>

\* analyze_email, steps 1 to 8
Assemble(c) ==
    /\ sharedPc[c] = "ready"
    /\ \E email_path \in RepeatPaths, replies \in RepeatReplies :
          LET now == Cardinality({d \in Callers : sharedPc[d] \notin {"new", "ready"}})
              done == analyze_email(Extracted[email_path], email_path, "rf", replies,
                                    SharedSelected, now)
          IN IF done.raised
             THEN /\ sharedPc' = [sharedPc EXCEPT ![c] = "raised"]
                  /\ UNCHANGED sharedResult
             ELSE /\ sharedPc' = [sharedPc EXCEPT ![c] = "assembled"]
                  /\ sharedResult' = [sharedResult EXCEPT ![c] = done.result]
    /\ UNCHANGED <<sharedFile, sharedAgents, sharedHistory,
                   cleanVars, agentVars, threatVars, analyzerVars, fnVars>>

\* self.history.append(result)
AppendResult(c) ==
    /\ sharedPc[c] = "assembled"
    /\ sharedHistory' = [sharedHistory EXCEPT
                            ![sharedAgents[c]] = Append(@, sharedResult[c])]
    /\ sharedPc' = [sharedPc EXCEPT ![c] = "appended"]
    /\ UNCHANGED <<sharedFile, sharedAgents, sharedResult,
                   cleanVars, agentVars, threatVars, analyzerVars, fnVars>>

\* _save_history: open(self.history_file, 'w') leaves the file empty
OpenForWriting(c) ==
    /\ sharedPc[c] = "appended"
    /\ sharedFile' = BrokenFile
    /\ sharedPc' = [sharedPc EXCEPT ![c] = "opened"]
    /\ UNCHANGED <<sharedAgents, sharedHistory, sharedResult,
                   cleanVars, agentVars, threatVars, analyzerVars, fnVars>>

\* _save_history: json.dump(self.history, f, ...) writes the agent's history
\* from the start of the file, and analyze_email returns
Dump(c) ==
    /\ sharedPc[c] = "opened"
    /\ sharedFile' = JsonFile(json_dump(sharedHistory[sharedAgents[c]]))
    /\ sharedPc' = [sharedPc EXCEPT ![c] = "returned"]
    /\ UNCHANGED <<sharedAgents, sharedHistory, sharedResult,
                   cleanVars, agentVars, threatVars, analyzerVars, fnVars>>

NextShared ==
    \E c \in Callers :
        \/ Construct(c)
        \/ Assemble(c)
        \/ AppendResult(c)
        \/ OpenForWriting(c)
        \/ Dump(c)

SpecShared == InitShared /\ [][NextShared]_vars

\* the history file holds the result of caller c as json.dump writes it
Persisted(c) ==
    \E i \in DOMAIN sharedFile.records :
        sharedFile.records[i] = json_dump(<<sharedResult[c]>>)[1]

(* C18: once the callers that ran at the same time over one history file    *)
(* have all returned, the file holds the result of each of them.            *)
C18_BothResultsPersisted ==
    (sharedPc # <<>> /\ \A c \in Callers : sharedPc[c] = "returned") =>
        \A c \in Callers : Persisted(c)

(* C20: an EmailAnalyzer whose loading failed, or whose selected features    *)
(* name something the extractor does not produce, serves no call of         *)
(* analyze: every call is on an analyzer that loaded its models, scaler and *)
(* selected features, and no selected feature is given to the models as a   *)
(* 0 that stands for a value the extractor never computed.                  *)
C20_MismatchIsFatal ==
    Analyzed =>
        /\ analyzerSelected.loaded
        /\ analyzerScaler
        /\ analyzerModels = Models
        /\ analyzerSelected.names \subseteq FeatureSchema
        /\ ReachedModels =>
              \A f \in analyzerSelected.names :
                  f \in DOMAIN TextFeatures[analyzerRequest.email_text]

(***************************************************************************)
(* Claims about the prediction of EmailSecurityAgent.                      *)
(***************************************************************************)
(* C21: in a result of analyze_email the prediction is 0 or 1, it is 1      *)
(* exactly when the confidence is above 0.5, and the confidence is the      *)
(* probability the prediction came from: that of the model asked, or the   *)
(* weighted sum of the three for the ensemble.                              *)
C21_PredictionIffAboveHalf ==
    Returned =>
        /\ outcome.result.prediction \in {0, 1}
        /\ (outcome.result.prediction = 1) <=> (outcome.result.confidence > Prob(500))
        /\ request.model_type \in Models =>
              outcome.result.confidence = modelOut[request.model_type].proba
        /\ request.model_type = "ensemble" =>
              10 * outcome.result.confidence =
                  SumSeq([i \in DOMAIN EnsembleOrder |->
                            weights[EnsembleOrder[i]] * modelOut[EnsembleOrder[i]].proba])

\* an ensemble call whose weighted sum is exactly 0.5 (0.05 + 0.375 + 0.075)
\* predicts 0
C21_Witness ==
    /\ Returned
    /\ request.model_type = "ensemble"
    /\ modelOut["lr"].proba = Prob(250)
    /\ modelOut["rf"].proba = Prob(750)
    /\ modelOut["dl"].proba = Prob(250)
    /\ outcome.result.confidence = Prob(500)
    /\ outcome.result.prediction = 0

(***************************************************************************)
(* Claims about EmailAnalyzer._detect_risks and the verdicts.              *)
(***************************************************************************)
(* C22, for EmailAnalyzer._detect_risks: the findings of a result hold a    *)
(* SUSPICIOUS_KEYWORDS finding exactly when suspicious_word_count is above *)
(* 3, and its severity is MEDIUM.                                           *)
C22_SuspiciousKeywordsMedium ==
    (Analyzed /\ analyzerResult.model_used # "error") =>
        LET risks == analyzerResult.risks
            found == {i \in DOMAIN risks : risks[i].type = "SUSPICIOUS_KEYWORDS"}
        IN /\ (found # {}) <=> (analyzerResult.features.suspicious_word_count > 3)
           /\ \A i \in found : risks[i].severity = "MEDIUM"

(***************************************************************************)
(* extraction/email_parser.py on its own: parse_email on a multipart       *)
(* message, its parts in the order of msg.walk(), the root first.          *)
(***************************************************************************)
PartKinds ==
    { Part("text/plain", None, <<"h","i">>, NoFilename),
      Part("text/plain", "inline", <<"y","o">>, NoFilename),
      Part("text/plain", "attachment", <<"t","x","t">>, <<"a",".","t","x","t">>),
      Part("text/html", None, <<"<","b",">">>, NoFilename),
      Part("text/html", "attachment", <<"<","i",">">>, <<"p",".","h","t","m","l">>),
      Part("application/octet-stream", "attachment", <<"M","Z">>, <<"x",".","e","x","e">>),
      Part("image/gif", "inline", <<"G","I","F">>, <<"i",".","g","i","f">>),
      Part("application/pdf", "attachment", <<>>, NoFilename),
      Part("application/octet-stream", "attachment", <<"M","Z">>, <<"S",".","E","X","E">>),
      Part("application/javascript", "attachment", <<";">>, <<".","j","s">>),
      Part("multipart/alternative", None, <<>>, NoFilename),
      Part("message/rfc822", "attachment", <<>>, NoFilename) }

RECURSIVE PartSeqs(_)
PartSeqs(n) ==
    IF n = 0 THEN {<<>>}
    ELSE LET shorter == PartSeqs(n - 1)
         IN shorter \cup {Append(ps, part) : ps \in shorter, part \in PartKinds}

MultipartMessages ==
    { [ headers |-> Headers("alice@corp.example", None, "pass"),
        multipart |-> TRUE, payload |-> <<>>,
        parts |-> <<Part("multipart/mixed", None, <<>>, NoFilename)>> \o ps ] :
        ps \in PartSeqs(MaxParts) }

InitParse ==
    /\ fnPc = "file"
    /\ fnIn \in MultipartMessages
    /\ fnOut = <<>>
    /\ CleanIdle
    /\ AgentIdle
    /\ ThreatIdle
    /\ AnalyzerIdle
    /\ SharedIdle

ParseEmail ==
    /\ fnPc = "file"
    /\ fnOut' = IF parse_email_raises(fnIn) THEN Raised("TypeError")
                ELSE [raised |-> FALSE, email_data |-> parse_email(fnIn)]
    /\ fnPc' = "parsed"
    /\ UNCHANGED <<fnIn, cleanVars, agentVars, threatVars, analyzerVars, sharedVars>>

\* extract_attachment_features on the attachments of the parsed message
ExtractAttachmentFeatures ==
    /\ fnPc = "parsed"
    /\ ~fnOut.raised
    /\ fnOut' = [ raised |-> FALSE, email_data |-> fnOut.email_data,
                  features |->
                      extract_attachment_features(fnOut.email_data["Attachments"]) ]
    /\ fnPc' = "featured"
    /\ UNCHANGED <<fnIn, cleanVars, agentVars, threatVars, analyzerVars, sharedVars>>

NextParse == ParseEmail \/ ExtractAttachmentFeatures

SpecParse == InitParse /\ [][NextParse]_vars

\* the parts of a message that satisfy a test, in traversal order
RECURSIVE PartsWhere(_, _, _)
PartsWhere(parts, content_types, attached) ==
    IF parts = <<>> THEN <<>>
    ELSE (IF /\ (Head(parts).disposition = "attachment") = attached
             /\ (attached \/ Head(parts).content_type \in content_types)
          THEN <<Head(parts)>> ELSE <<>>)
         \o PartsWhere(Tail(parts), content_types, attached)

RECURSIVE Contents(_)
Contents(parts) ==
    IF parts = <<>> THEN <<>> ELSE Head(parts).content \o Contents(Tail(parts))

(* C23: parse_email on a multipart message returns a record in which         *)
(* Attachments lists the parts of disposition 'attachment', in order and    *)
(* whatever their content type, Body_Text is the text of the other          *)
(* text/plain parts and Body_HTML that of the other text/html parts, in     *)
(* order.                                                                   *)
C23_PartsRouted ==
    fnPc = "parsed" =>
        /\ ~fnOut.raised
        /\ LET attached == PartsWhere(fnIn.parts, {}, TRUE)
               email_data == fnOut.email_data
           IN /\ Len(email_data["Attachments"]) = Len(attached)
              /\ \A i \in DOMAIN attached :
                    /\ email_data["Attachments"][i].filename = attached[i].filename
                    /\ email_data["Attachments"][i].content_type = attached[i].content_type
              /\ email_data["Body_Text"] =
                    Contents(PartsWhere(fnIn.parts, {"text/plain"}, FALSE))
              /\ email_data["Body_HTML"] =
                    Contents(PartsWhere(fnIn.parts, {"text/html"}, FALSE))

\* the file name is a string that ends in one of the five extensions as
\* they are written
HasDangerousName(att) ==
    /\ att.filename \notin {NoFilename, <<>>}
    /\ \E ext \in { <<".","e","x","e">>, <<".","z","i","p">>, <<".","j","s">>,
                    <<".","s","c","r">>, <<".","b","a","t">> } :
          /\ Len(att.filename) >= Len(ext)
          /\ \A k \in DOMAIN ext :
                att.filename[Len(att.filename) - Len(ext) + k] = ext[k]

(* C24: extract_attachment_features gives attachment_count the number of    *)
(* attachments and dangerous_attachment 1 exactly when some attachment has  *)
(* a file name that ends, letter case included, in .exe, .zip, .js, .scr or *)
(* .bat, and 0 otherwise; an attachment without a file name or with an      *)
(* upper-case extension does not set it.                                    *)
C24_DangerousAttachment ==
    fnPc = "featured" =>
        LET attachments == fnOut.email_data["Attachments"]
        IN /\ DOMAIN fnOut.features = {"attachment_count", "dangerous_attachment"}
           /\ fnOut.features.attachment_count = Len(attachments)
           /\ fnOut.features.dangerous_attachment \in {0, 1}
           /\ (fnOut.features.dangerous_attachment = 1) <=>
                  \E i \in DOMAIN attachments : HasDangerousName(attachments[i])

\* an attachment without a file name and one named S.EXE: two attachments,
\* none dangerous
C24_Witness ==
    /\ fnPc = "featured"
    /\ Len(fnOut.email_data["Attachments"]) = 2
    /\ fnOut.email_data["Attachments"][1].filename = NoFilename
    /\ fnOut.email_data["Attachments"][2].filename = <<"S",".","E","X","E">>
    /\ fnOut.features.attachment_count = 2
    /\ fnOut.features.dangerous_attachment = 0

(***************************************************************************)
(* Claims about clean_text.                                                *)
(***************************************************************************)
(* C25: the result of clean_text holds only the letters a to z, the digits  *)
(* and single spaces: no other character, no space at either end and no    *)
(* two spaces in a row; for the empty text and for None it is the empty     *)
(* text.                                                                    *)
C25_CanonicalForm ==
    ctPc \in {"cleaned", "recleaned"} =>
        /\ \A i \in DOMAIN ctOut :
              \/ ctOut[i] \in Range(LowerLetters) \cup Digits
              \/ /\ ctOut[i] = " "
                 /\ 1 < i /\ i < Len(ctOut)
                 /\ ctOut[i + 1] # " "
        /\ ctIn \in {<<>>, <<"None">>} => ctOut = <<>>

\* a text with upper-case letters and a letter outside ASCII is cleaned to
\* two words with one space between them
C25_Witness ==
    /\ ctPc = "cleaned"
    /\ ctIn = <<"H","T","T","P","E'","a">>
    /\ ctOut = <<"h","t","t","p"," ","a">>

(***************************************************************************)
(* Claims about the confidence and the verdicts of EmailAnalyzer.analyze.  *)
(***************************************************************************)
\* what analyze keeps of a model's call: its probability, 0.5 when it raised
Kept(m) ==
    IF analyzerModelOut.replies[m].status = "raised" THEN Prob(500)
    ELSE analyzerModelOut.replies[m].proba

(* C26: on an analyzer with its three models, an ensemble call has the      *)
(* three models in its predictions map and their unweighted mean as         *)
(* confidence, a model that failed counting as 0.5; a call for one model    *)
(* has that model alone in the map and its entry as confidence.             *)
C26_UnweightedMean ==
    (ReachedModels /\ analyzerModels = Models) =>
        LET predictions == analyzerResult.predictions
            model_type == analyzerRequest.model_type
        IN /\ model_type = "ensemble" =>
                 /\ DOMAIN predictions = {"lr", "rf", "dl"}
                 /\ 3 * analyzerResult.confidence =
                        predictions["lr"] + predictions["rf"] + predictions["dl"]
           /\ model_type \in Models =>
                 /\ DOMAIN predictions = {model_type}
                 /\ analyzerResult.confidence = predictions[model_type]
           /\ \A m \in DOMAIN predictions : predictions[m] = Kept(m)

\* lr returns 1, rf 0.5 and dl 0: the mean is 0.5, where the weights of the
\* agent would give 0.45
C26_Witness ==
    /\ ReachedModels
    /\ analyzerModels = Models
    /\ analyzerRequest.model_type = "ensemble"
    /\ analyzerResult.predictions = [lr |-> Prob(1000), rf |-> Prob(500), dl |-> Prob(0)]
    /\ analyzerResult.confidence = Prob(500)

\* the findings of the result, in order, by type and severity
FoundInOrder ==
    [i \in DOMAIN analyzerResult.risks |->
        <<analyzerResult.risks[i].type, analyzerResult.risks[i].severity>>]

\* the findings but SUSPICIOUS_KEYWORDS that the features of the result call
\* for, in the order of the rules
ExpectedAfterKeywords ==
    LET f == analyzerResult.features
    IN (IF f.url_count > 5 THEN << <<"MULTIPLE_URLS", "MEDIUM">> >> ELSE <<>>)
       \o (IF f.url_count > 0 /\ 2 * f.https_url_count < f.url_count
           THEN << <<"INSECURE_URLS", "HIGH">> >> ELSE <<>>)
       \o (IF f.text_length < 50 THEN << <<"SHORT_MESSAGE", "LOW">> >> ELSE <<>>)

(* C27: the findings of EmailAnalyzer._detect_risks come in the order        *)
(* SUSPICIOUS_KEYWORDS, MULTIPLE_URLS, INSECURE_URLS, SHORT_MESSAGE, each at *)
(* most once: MULTIPLE_URLS (MEDIUM) exactly when url_count is above 5,     *)
(* INSECURE_URLS (HIGH) exactly when there is a URL and fewer than half of  *)
(* the URLs are HTTPS, SHORT_MESSAGE (LOW) exactly when text_length is      *)
(* below 50; no other type of finding is emitted.                           *)
C27_LightweightFindings ==
    ReachedModels =>
        LET keywords == IF FoundInOrder # <<>> /\ FoundInOrder[1][1] = "SUSPICIOUS_KEYWORDS"
                        THEN 1 ELSE 0
        IN /\ SubSeq(FoundInOrder, keywords + 1, Len(FoundInOrder)) = ExpectedAfterKeywords
           /\ (keywords = 1) <=> (analyzerResult.features.suspicious_word_count > 3)
           /\ analyzerRequest.email_text = <<>> =>
                 FoundInOrder = << <<"SHORT_MESSAGE", "LOW">> >>

\* one HTTP and one HTTPS URL: exactly half, no INSECURE_URLS, and the short
\* text gets SHORT_MESSAGE
C27_Witness ==
    /\ ReachedModels
    /\ analyzerResult.features.url_count = 2
    /\ analyzerResult.features.https_url_count = 1
    /\ analyzerResult.features.suspicious_word_count = 0
    /\ FoundInOrder = << <<"SHORT_MESSAGE", "LOW">> >>

(***************************************************************************)
(* One call of analyze_email on an EmailSecurityAgent, or one call of      *)
(* analyze on an EmailAnalyzer.                                            *)
(***************************************************************************)
InitVerdicts == Init \/ InitAnalyzer

NextVerdicts ==
    \/ (selected_features # {} /\ AnalyzeEmail)
    \/ (analyzerModels # {} /\ Analyze)

SpecVerdicts == InitVerdicts /\ [][NextVerdicts]_vars

(* C28: the label, level and action of every classification are one of the  *)
(* triples of its variant.  analyze_email: LEGITIMATE/SAFE/ALLOW,           *)
(* SUSPICIOUS/LOW/FLAG, or MALWARE, PHISHING or SPAM with CRITICAL/BLOCK,   *)
(* HIGH/QUARANTINE or MEDIUM/FLAG, the label being one of these three       *)
(* exactly when the prediction of the result is 1.  analyze:                *)
(* PHISHING/HIGH/BLOCK, SUSPICIOUS/MEDIUM/QUARANTINE, LEGITIMATE/LOW/ALLOW, *)
(* SPAM/MEDIUM/SPAM_FOLDER or ERROR/UNKNOWN/REVIEW.                         *)
C28_VerdictTriples ==
    /\ (selected_features # {} /\ Returned) =>
          LET classification == outcome.result.classification
          IN /\ Verdict(classification) \in
                   { <<"LEGITIMATE", "SAFE", "ALLOW">>, <<"SUSPICIOUS", "LOW", "FLAG">> }
                   \cup { <<label, tier[1], tier[2]>> :
                            label \in {"MALWARE", "PHISHING", "SPAM"},
                            tier \in { <<"CRITICAL", "BLOCK">>, <<"HIGH", "QUARANTINE">>,
                                       <<"MEDIUM", "FLAG">> } }
             /\ (classification.label \in {"MALWARE", "PHISHING", "SPAM"})
                    <=> (outcome.result.prediction = 1)
    /\ (analyzerModels # {} /\ Analyzed) =>
          AnalyzerVerdict \in
              { <<"PHISHING", "HIGH", "BLOCK">>, <<"SUSPICIOUS", "MEDIUM", "QUARANTINE">>,
                <<"LEGITIMATE", "LOW", "ALLOW">>, <<"SPAM", "MEDIUM", "SPAM_FOLDER">>,
                <<"ERROR", "UNKNOWN", "REVIEW">> }

\* a message predicted malicious at 0.75 without URL or attachment finding
C28_Witness ==
    /\ selected_features # {}
    /\ Returned
    /\ outcome.result.prediction = 1
    /\ outcome.result.confidence = Prob(750)
    /\ Verdict(outcome.result.classification) = <<"SPAM", "HIGH", "QUARANTINE">>

\* the analyzer is one that _load_models left after a failure: a model, the
\* scaler or the selected features are missing
LoadFailed ==
    ~(analyzerModels = Models /\ analyzerScaler /\ analyzerSelected.loaded)

(* C29: an EmailAnalyzer whose loading failed at any stage exists all the    *)
(* same, and every call of analyze on it, for every text and model type,    *)
(* returns the ERROR/UNKNOWN/REVIEW default result: confidence 0.5, no      *)
(* predictions, no features, no risks, model_used 'error'.                  *)
C29_FailedLoadAlwaysError ==
    (analyzerModels # {} /\ LoadFailed) =>
        \A i \in DOMAIN analyzerLog :
            LET result == analyzerLog[i].result
            IN /\ << result.classification.label, result.classification.level,
                     result.classification.action >> = <<"ERROR", "UNKNOWN", "REVIEW">>
               /\ result.confidence = Prob(500)
               /\ result.predictions = <<>>
               /\ result.features = <<>>
               /\ result.risks = <<>>
               /\ result.model_used = "error"

\* random_forest.pkl failed to load: two calls in a row, for different texts
\* and model types, both get the ERROR result
C29_Witness ==
    /\ analyzerModels = {"lr", "dl"}
    /\ ~analyzerSelected.loaded
    /\ Len(analyzerLog) = MaxCalls
    /\ analyzerLog[1].email_text # analyzerLog[2].email_text
    /\ analyzerLog[1].model_type = "rf"
    /\ analyzerLog[2].model_type = "ensemble"
    /\ analyzerLog[1].result.classification.label = "ERROR"
    /\ analyzerLog[2].result.classification.label = "ERROR"

(* C30: a call of analyze on a loaded analyzer with a model type that is     *)
(* none of lr, rf, dl and ensemble asks no model and reports no error: the  *)
(* predictions map is empty, the confidence is 0.5, model_used is the model *)
(* type given, and the verdict is SUSPICIOUS/MEDIUM/QUARANTINE, or          *)
(* SPAM/MEDIUM/SPAM_FOLDER when suspicious_word_count is above 5 and        *)
(* url_count is 0.                                                          *)
C30_UnknownModelType ==
    (ReachedModels /\ analyzerRequest.model_type \notin {"lr", "rf", "dl", "ensemble"}) =>
        /\ \A m \in Models : analyzerModelOut.replies[m] = NotInvoked
        /\ analyzerResult.predictions = <<>>
        /\ analyzerResult.confidence = Prob(500)
        /\ analyzerResult.model_used = analyzerRequest.model_type
        /\ AnalyzerVerdict =
              IF /\ analyzerResult.features.suspicious_word_count > 5
                 /\ analyzerResult.features.url_count = 0
              THEN <<"SPAM", "MEDIUM", "SPAM_FOLDER">>
              ELSE <<"SUSPICIOUS", "MEDIUM", "QUARANTINE">>

\* model type 'svm' on a text with one URL
C30_Witness ==
    /\ ReachedModels
    /\ analyzerRequest.model_type = "svm"
    /\ analyzerResult.features.url_count = 1
    /\ analyzerResult.model_used = "svm"
    /\ AnalyzerVerdict = <<"SUSPICIOUS", "MEDIUM", "QUARANTINE">>

====
